---- MODULE Spec2Model ----
(***************************************************************************)
(* Verification model of the report classification and risk-scoring engine *)
(* (saschaas/KPI_Reports_Analysis).                                        *)
(*                                                                         *)
(* Part 1: RiskScorer            (src/src/utils/scoring.py)                *)
(* Part 2: ReportDetector        (src/src/core/report_detector.py)         *)
(* Part 3: OllamaHandler.classify (src/src/core/llm_handler.py)            *)
(* Part 4: ReportAnalysisTool.run (src/src/main.py)                        *)
(* Part 5: schema mapping and the analyzers' use of the input table        *)
(*         (src/src/analyzers/*_analyzer.py)                               *)
(* Part 6: date-format inference (src/src/analyzers/*_analyzer.py)         *)
(* Part 7: the backup timeline   (src/src/analyzers/*_backup_analyzer.py)  *)
(* Part 8: configuration loading (src/src/utils/config_loader.py)          *)
(* Part 9: ReportAnalyzer.analyze (src/src/core/report_analyzer.py)        *)
(*                                                                         *)
(* Numbers that are floats in the program (scores, points, field values)   *)
(* are kept in tenths: 1000 is a score of 100.0, 5 is a field value 0.5.   *)
(* Occurrence counts are plain integers, as in the program.                *)
(***************************************************************************)
EXTENDS Integers, Sequences, FiniteSets, TLC

VARIABLES
    scorer,     \* RiskScorer instance: base_score, deductions, risk_levels
    checks,     \* argument of calculate: list of CheckResult
    data,       \* argument of calculate: extracted_data mapping
    result,     \* what calculate returned (or that it raised)
    spc,        \* position of the scoring run: "idle" | "ready" | "done"
    report_configs, \* ReportDetector.report_configs, in dictionary order
    llm,        \* the detector's llm_handler: "none" | "down" | "up"
    file,       \* the file detect is called on
    dpc,        \* position inside detect: "idle" | "filename" | "content"
                \*   | "llm" | "manual" | "done"
    detection,  \* what detect returns (NoDetection models None)
    trace,      \* stages of detect executed so far, in order
    parsed,     \* number of times a parser was run on the file
    queried,    \* report ids submitted to the classifier, in order
    prompted,   \* whether the operator has been prompted
    answered,   \* what the classifier handed back for each id of queried
    max_retries,    \* OllamaHandler.max_retries
    client,     \* whether OllamaHandler.client was initialised
    template_ok,    \* whether prompt_template.format(content=...) succeeds
    cpc,        \* position inside classify: "idle" | "format" | "attempt"
                \*   | "returned"
    attempt,    \* loop variable of classify (0-based)
    calls,      \* number of client.generate calls made
    sleeps,     \* seconds slept by classify, in order
    outcomes,   \* what each client.generate call did, in order
    classified, \* what classify returned
    files,      \* the batch of run: validated input files, in order
    archive_processed,  \* argument of run
    single,     \* run was given an input_path (one file, never archived)
    rpc,        \* position inside run: "idle" | "process" | "archive"
                \*   | "save" | "done"
    fi,         \* index of the file being handled
    results,    \* the results list of run
    warnings,   \* files whose archiving failed (a warning is logged)
    archived,   \* files moved to the archive, with the month used
    last_result,    \* the local variable result of run
    happened,   \* what happened to each file handled so far
    run_ok,     \* what run returned
    table,      \* the input table handed to the analyzer
    field_mappings, \* analyzer.field_mappings, in configured order
    fuzzy_threshold,    \* analyzer.fuzzy_threshold, in hundredths
    analyzer,   \* which analyzer class is at work
    tpc,        \* what has been called on the analyzer so far
    mapped_df,  \* what _map_columns returned for the input table
    df,         \* the working table of run_checks / extract_fields
    attrs,      \* attributes run_checks has set on the analyzer
    dates_series,   \* the date column handed to _detect_date_format
    detected,   \* the answer of each analyzer's _detect_date_format
    vm_table, \* the table of the analysis run at hand
    vm_arg, \* the table handed to the latest call on the analyzer
    vm_calls, \* the calls made on the analyzer instance, in order
    vm_analysis_cache, \* the attribute _vm_analysis_cache, once set
    vm_returned, \* what the latest call returned
    cfg_files, \* the report-type files of the configuration directory
    main_file, \* what main_config.yaml holds
    boot, \* construction of the tool: "start" | "main" | "ready" | "aborted"
    objects, \* the configuration objects created so far, by address
    config_cache, \* ConfigLoader.config_cache: key and address
    detector_map, \* ReportDetector.report_configs: id and address, in order
    last_load, \* number of load_all_report_configs calls made
    load_errors, \* files the latest load_all_report_configs failed on
    issued, \* the DetectionResults returned so far
    analysed_since_load, \* a file was analysed after the latest load
    scorer_built, \* the scorer of the latest analysis
    an_input, \* what ReportAnalyzer.analyze meets in the call at hand
    an_pc, \* position inside analyze: "idle" | "algorithmic" | "fallback"
                \*   | "llm" | "failed" | "returned" | "raised"
    algo_outcome, \* how _algorithmic_analysis ended: "pending" | "result" | "none" | "raised"
    llm_outcome, \* how _llm_analysis ended: "not_attempted" | "attempted" | "result" | "none" | "raised"
    an_result \* what analyze returned

scorerVars == <<scorer, checks, data, result, spc>>
detectVars == <<report_configs, llm, file, dpc, detection, trace, parsed,
                queried, prompted, answered>>
classifyVars == <<max_retries, client, template_ok, cpc, attempt, calls,
                  sleeps, outcomes, classified>>
runVars == <<files, archive_processed, single, rpc, fi, results, warnings,
             archived, last_result, happened, run_ok>>
tableVars == <<table, field_mappings, fuzzy_threshold, analyzer, tpc,
               mapped_df, df, attrs>>
dateVars == <<dates_series, detected>>
timelineVars == <<vm_table, vm_arg, vm_calls, vm_analysis_cache,
                  vm_returned>>
configVars == <<cfg_files, main_file, boot, objects, config_cache,
                detector_map, last_load, load_errors, issued,
                analysed_since_load, scorer_built>>
analyzeVars == <<an_input, an_pc, algo_outcome, llm_outcome, an_result>>
vars == <<scorerVars, detectVars, classifyVars, runVars, tableVars,
          dateVars, timelineVars, configVars, analyzeVars>>

\* What each part leaves alone
outsideScorer == <<detectVars, classifyVars, runVars, tableVars, dateVars,
                   timelineVars, configVars, analyzeVars>>
outsideDetect == <<scorerVars, classifyVars, runVars, tableVars, dateVars,
                   timelineVars, configVars, analyzeVars>>
outsideClassify == <<scorerVars, detectVars, runVars, tableVars, dateVars,
                     timelineVars, configVars, analyzeVars>>
outsideRun == <<scorerVars, detectVars, classifyVars, tableVars, dateVars,
                timelineVars, configVars, analyzeVars>>
outsideTable == <<scorerVars, detectVars, classifyVars, runVars, dateVars,
                  timelineVars, configVars, analyzeVars>>
outsideDates == <<scorerVars, detectVars, classifyVars, runVars, tableVars,
                  timelineVars, configVars, analyzeVars>>
outsideTimeline == <<scorerVars, detectVars, classifyVars, runVars,
                     tableVars, dateVars, configVars, analyzeVars>>
outsideConfig == <<scorerVars, detectVars, classifyVars, runVars,
                   tableVars, dateVars, timelineVars, analyzeVars>>
outsideAnalyze == <<scorerVars, detectVars, classifyVars, runVars,
                    tableVars, dateVars, timelineVars, configVars>>

\* The parts that are not at work stay as constructed
IdleClassify ==
    /\ max_retries = 3
    /\ client = FALSE
    /\ template_ok = TRUE
    /\ cpc = "idle"
    /\ attempt = 0
    /\ calls = 0
    /\ sleeps = <<>>
    /\ outcomes = <<>>
    /\ classified = [kind |-> "nothing"]

IdleRun ==
    /\ files = <<>>
    /\ archive_processed = TRUE
    /\ single = FALSE
    /\ rpc = "idle"
    /\ fi = 0
    /\ results = <<>>
    /\ warnings = <<>>
    /\ archived = <<>>
    /\ last_result = [kind |-> "unbound"]
    /\ happened = <<>>
    /\ run_ok = "running"

IdleTable ==
    /\ table = <<>>
    /\ field_mappings = <<>>
    /\ fuzzy_threshold = 85
    /\ analyzer = "none"
    /\ tpc = "idle"
    /\ mapped_df = <<>>
    /\ df = <<>>
    /\ attrs = {}

IdleDates ==
    /\ dates_series = <<>>
    /\ detected = <<>>

IdleTimeline ==
    /\ vm_table = <<>>
    /\ vm_arg = <<>>
    /\ vm_calls = <<>>
    /\ vm_analysis_cache = [kind |-> "unset"]
    /\ vm_returned = [call |-> "none"]

IdleConfig ==
    /\ cfg_files = <<>>
    /\ main_file = "valid"
    /\ boot = "idle"
    /\ objects = <<>>
    /\ config_cache = {}
    /\ detector_map = <<>>
    /\ last_load = 0
    /\ load_errors = {}
    /\ issued = {}
    /\ analysed_since_load = FALSE
    /\ scorer_built = [path |-> "none"]

IdleAnalyze ==
    /\ an_input = [given |-> FALSE]
    /\ an_pc = "idle"
    /\ algo_outcome = "pending"
    /\ llm_outcome = "not_attempted"
    /\ an_result = [given |-> FALSE]

\* ------------------------------------------------------------------------
\* Bounds of the model
\* ------------------------------------------------------------------------
MaxChecks == 2
MaxRules == 2
MaxConfigs == 2
MaxRetries == 3
MaxFiles == 3
MaxColumns == 3
MaxDates == 3
MaxEvents == 2
MaxCalls == 2
MaxLoads == 2
MaxIssued == 2

\* ------------------------------------------------------------------------
\* Generic helpers
\* ------------------------------------------------------------------------
Min(a, b) == IF a <= b THEN a ELSE b
Max(a, b) == IF a >= b THEN a ELSE b

SeqsUpTo(S, n) == UNION { [1..k -> S] : k \in 0..n }

\* int(x) of a float kept in tenths: truncation toward zero
PyInt(x) == IF x >= 0 THEN x \div 10 ELSE -((-x) \div 10)

\* ------------------------------------------------------------------------
\* Part 1: RiskScorer
\* ------------------------------------------------------------------------
RiskLow == "niedrig"
RiskMedium == "mittel"
RiskHigh == "hoch"
RiskCritical == "kritisch"

StatusOk == "ok"
StatusLimited == "mit_einschraenkungen"
StatusError == "fehler"

\* A condition string, in parsed form.  kind is the shape of the string:
\*   the three named check aggregates, "gt" (field > value), "lt"
\*   (field < value), "eq" (field == text), "malformed" (an operator is
\*   present but splitting or float() of the right-hand side raises) and
\*   "unknown" (no operator and no known name).
Cond(kind, fld, value, text) ==
    [kind |-> kind, field |-> fld, value |-> value, text |-> text]

CondMissingCols == Cond("missing_required_columns", "", 0, "")
CondQuality == Cond("data_quality_issues", "", 0, "")
CondCritical == Cond("critical_errors", "", 0, "")
CondRateLow == Cond("lt", "success_rate", 500, "")
CondRateHigh == Cond("gt", "success_rate", 10, "")
CondRateNA == Cond("eq", "success_rate", 0, "n/a")
CondMalformed == Cond("malformed", "", 0, "")
CondUnknown == Cond("unknown", "", 0, "")

\* "quality" in check_id.lower()
HasQuality(check_id) == check_id \in {"data_quality", "Quality_Check"}

\* len([c for c in checks if c.check_id == "completeness" and not c.passed])
CountFailedCompleteness(cks) ==
    Cardinality({ i \in DOMAIN cks :
                    cks[i].check_id = "completeness" /\ ~cks[i].passed })

\* len([c for c in checks if "quality" in c.check_id.lower() and not c.passed])
CountFailedQuality(cks) ==
    Cardinality({ i \in DOMAIN cks :
                    HasQuality(cks[i].check_id) /\ ~cks[i].passed })

\* len([c for c in checks if c.severity == "high" and not c.passed])
CountFailedHigh(cks) ==
    Cardinality({ i \in DOMAIN cks :
                    cks[i].severity = "high" /\ ~cks[i].passed })

\* RiskScorer._evaluate_condition: number of occurrences
EvaluateCondition(condition, cks, d) ==
        CASE condition.kind = "missing_required_columns" ->
                CountFailedCompleteness(cks)
          [] condition.kind = "data_quality_issues" ->
                CountFailedQuality(cks)
          [] condition.kind = "critical_errors" ->
                CountFailedHigh(cks)
          [] condition.kind = "gt" ->
                IF condition.field \in DOMAIN d
                THEN IF d[condition.field].kind # "num" THEN 0  \* float() raises
                     ELSE IF d[condition.field].num > condition.value
                          THEN PyInt(d[condition.field].num) ELSE 0
                ELSE 0
          [] condition.kind = "lt" ->
                IF condition.field \in DOMAIN d
                THEN IF d[condition.field].kind # "num" THEN 0  \* float() raises
                     ELSE IF d[condition.field].num < condition.value
                          THEN PyInt(d[condition.field].num) ELSE 0
                ELSE 0
          [] condition.kind = "eq" ->
                IF condition.field \in DOMAIN d
                THEN IF d[condition.field].kind = "text"
                        /\ d[condition.field].text = condition.text
                     THEN 1 ELSE 0
                ELSE 0
          [] OTHER -> 0

\* The value _apply_deduction returns: a number, or the misconfigured
\* (non-numeric) points object itself.
Amount(n) == [is_num |-> TRUE, amount |-> n]
NotANumber == [is_num |-> FALSE, amount |-> 0]

\* _apply_deduction without the max_deduction cap
ApplyDeductionNoCap(rule, cks, d) ==
    LET occurrences == EvaluateCondition(rule.condition, cks, d)
    IN  IF occurrences = 0 THEN Amount(0)
        ELSE IF rule.per_occurrence
             THEN IF ~rule.points_is_num THEN Amount(0)
                  ELSE Amount(rule.points * occurrences)
             ELSE IF occurrences > 0
                  THEN (IF rule.points_is_num THEN Amount(rule.points) ELSE NotANumber)
                  ELSE Amount(0)

\* RiskScorer._apply_deduction
ApplyDeduction(rule, cks, d) ==
    LET occurrences == EvaluateCondition(rule.condition, cks, d)
    IN  IF occurrences = 0 THEN Amount(0)
        ELSE IF rule.per_occurrence
             THEN IF ~rule.points_is_num THEN Amount(0)   \* TypeError, caught
                  ELSE IF rule.has_max
                       THEN Amount(Min(rule.points * occurrences, rule.max_deduction))
                       ELSE Amount(rule.points * occurrences)
             ELSE IF occurrences > 0
                  THEN (IF rule.points_is_num THEN Amount(rule.points) ELSE NotANumber)
                  ELSE Amount(0)

\* RiskScorer._check_triggers
RECURSIVE CheckTriggers(_, _, _)
CheckTriggers(triggers, cks, d) ==
    IF triggers = <<>> THEN FALSE
    ELSE IF EvaluateCondition(Head(triggers), cks, d) > 0 THEN TRUE
         ELSE CheckTriggers(Tail(triggers), cks, d)

LevelNamed(levels, name) == { i \in DOMAIN levels : levels[i].name = name }

\* The score-range loop of _determine_risk_level; "" when no band returns
RECURSIVE BandLookup(_, _)
BandLookup(levels, score) ==
    IF levels = <<>> THEN ""
    ELSE LET lv == Head(levels)
         IN  IF Len(lv.score_range) = 2
                /\ lv.score_range[1] <= score /\ score <= lv.score_range[2]
                /\ lv.name \in {"high", "medium", "low"}
             THEN (CASE lv.name = "high" -> RiskHigh
                     [] lv.name = "medium" -> RiskMedium
                     [] lv.name = "low" -> RiskLow)
             ELSE BandLookup(Tail(levels), score)

\* RiskScorer._determine_risk_level
DetermineRiskLevel(levels, score, cks, d) ==
    LET crit == LevelNamed(levels, "critical")
        high == LevelNamed(levels, "high")
        band == BandLookup(levels, score)
    IN  IF \E i \in crit : CheckTriggers(levels[i].triggers, cks, d)
        THEN RiskCritical
        ELSE IF \E i \in high : levels[i].has_triggers
                                /\ CheckTriggers(levels[i].triggers, cks, d)
        THEN RiskHigh
        ELSE IF band # "" THEN band
        ELSE IF score <= 600 THEN RiskHigh
        ELSE IF score <= 850 THEN RiskMedium
        ELSE RiskLow

\* _determine_status with CRITICAL handled like HIGH
DetermineStatusCriticalByScore(score, risk_level, cks) ==
        IF CountFailedHigh(cks) > 0 THEN StatusError
        ELSE IF risk_level \in {RiskCritical, RiskHigh}
             THEN (IF score < 400 THEN StatusError ELSE StatusLimited)
        ELSE IF risk_level = RiskMedium THEN StatusLimited
        ELSE StatusOk

\* RiskScorer._determine_status
DetermineStatus(score, risk_level, cks) ==
        IF CountFailedHigh(cks) > 0 THEN StatusError
        ELSE IF risk_level = RiskCritical THEN StatusError
        ELSE IF risk_level = RiskHigh
             THEN (IF score < 400 THEN StatusError ELSE StatusLimited)
        ELSE IF risk_level = RiskMedium THEN StatusLimited
        ELSE StatusOk

RuleDetail(rule, amount) ==
    [src |-> "rule", condition |-> rule.condition, check |-> "",
     severity |-> "", points |-> amount]

CheckDetail(c) ==
    [src |-> "check", condition |-> CondUnknown, check |-> c.name,
     severity |-> c.severity, points |-> c.points_deducted]

\* Accumulator of calculate's two loops
Acc0(base) ==
    [raised |-> FALSE, score |-> base, total |-> 0, details |-> <<>>,
     triggered |-> <<>>]

\* First loop of calculate: the deduction rules, in order
RECURSIVE RuleLoop(_, _, _, _)
RuleLoop(rules, cks, d, acc) ==
    IF rules = <<>> \/ acc.raised THEN acc
    ELSE LET rule == Head(rules)
             ded == ApplyDeduction(rule, cks, d)
         IN  IF ~ded.is_num
             THEN [acc EXCEPT !.raised = TRUE]     \* "deduction_amount > 0" raises
             ELSE IF ded.amount > 0
                  THEN RuleLoop(Tail(rules), cks, d,
                         [acc EXCEPT !.score = @ - ded.amount,
                                     !.total = @ + ded.amount,
                                     !.details = Append(@, RuleDetail(rule, ded.amount)),
                                     !.triggered = Append(@, rule.condition)])
                  ELSE RuleLoop(Tail(rules), cks, d, acc)

\* Guard of the second loop: "not check.passed and check.points_deducted > 0"
CheckDeductsAnyResult(c) == c.points_deducted > 0
CheckDeducts(c) == ~c.passed /\ c.points_deducted > 0

\* Second loop of calculate: the failed checks, in order
RECURSIVE CheckLoop(_, _)
CheckLoop(cks, acc) ==
    IF cks = <<>> THEN acc
    ELSE LET c == Head(cks)
         IN  IF CheckDeducts(c)
             THEN CheckLoop(Tail(cks),
                    [acc EXCEPT !.score = @ - c.points_deducted,
                                !.total = @ + c.points_deducted,
                                !.details = Append(@, CheckDetail(c))])
             ELSE CheckLoop(Tail(cks), acc)

Raised ==
    [raised |-> TRUE, score |-> 0, base_score |-> 0, total_deductions |-> 0,
     risk_level |-> "", status |-> "", deduction_details |-> <<>>,
     triggered_rules |-> <<>>]

NoResult ==
    [raised |-> FALSE, score |-> 0, base_score |-> 0, total_deductions |-> 0,
     risk_level |-> "", status |-> "", deduction_details |-> <<>>,
     triggered_rules |-> <<>>]

\* "score = max(0, min(100, score))"
ClampScoreUpperOnly(score) == Min(1000, score)
ClampScore(score) == Max(0, Min(1000, score))

\* RiskScorer.calculate
Calculate(sc, cks, d) ==
    LET afterRules == RuleLoop(sc.deductions, cks, d, Acc0(sc.base_score))
        acc == CheckLoop(cks, afterRules)
        score == ClampScore(acc.score)
        risk == DetermineRiskLevel(sc.risk_levels, score, cks, d)
    IN  IF afterRules.raised THEN Raised
        ELSE [raised |-> FALSE,
              score |-> score,
              base_score |-> sc.base_score,
              total_deductions |-> acc.total,
              risk_level |-> risk,
              status |-> DetermineStatus(score, risk, cks),
              deduction_details |-> acc.details,
              triggered_rules |-> acc.triggered]

\* ---- inputs of the scorer ------------------------------------------------
Check(id, name, passed, severity, pts) ==
    [check_id |-> id, name |-> name, passed |-> passed, severity |-> severity,
     points_deducted |-> pts]

CheckSet ==
    { Check("completeness", "Completeness", FALSE, "medium", 0),
      Check("data_quality", "Data quality", FALSE, "high", 450),
      Check("row_count", "Row count", FALSE, "low", 105),
      Check("completeness", "Completeness", TRUE, "high", 450) }

Rule(cond, pts, isnum, per, hasmax, maxd) ==
    [condition |-> cond, points |-> pts, points_is_num |-> isnum,
     per_occurrence |-> per, has_max |-> hasmax, max_deduction |-> maxd]

RuleSet ==
    { Rule(CondCritical, 50, TRUE, TRUE, TRUE, 200),
      Rule(CondMissingCols, 300, TRUE, FALSE, FALSE, 0),
      Rule(CondRateLow, 100, TRUE, FALSE, FALSE, 0),
      Rule(CondRateHigh, 100, TRUE, TRUE, TRUE, 250),
      Rule(CondMalformed, 100, TRUE, FALSE, FALSE, 0),
      Rule(CondQuality, 0, FALSE, FALSE, FALSE, 0),
      Rule(CondRateNA, 150, TRUE, TRUE, FALSE, 0) }

Num(n) == [kind |-> "num", num |-> n, text |-> ""]
Text(s) == [kind |-> "text", num |-> 0, text |-> s]

FieldValues == { Num(-15), Num(0), Num(5), Num(30), Num(600), Text("n/a") }

DataSet ==
    { <<>> } \cup { [f \in {"success_rate"} |-> v] : v \in FieldValues }

Level(name, range, hastrig, trig) ==
    [name |-> name, score_range |-> range, has_triggers |-> hastrig,
     triggers |-> trig]

\* The risk_levels _validate_config installs when none are configured
DefaultRiskLevels ==
    << Level("high", <<0, 600>>, FALSE, <<>>),
       Level("medium", <<610, 850>>, FALSE, <<>>),
       Level("low", <<860, 1000>>, FALSE, <<>>) >>

RiskLevelConfigs ==
    { <<>>,
      << Level("critical", <<>>, TRUE, <<CondRateLow, CondMissingCols>>),
         Level("high", <<0, 600>>, TRUE, <<CondQuality>>),
         Level("medium", <<610, 850>>, FALSE, <<>>),
         Level("low", <<860, 1000>>, FALSE, <<>>) >>,
      << Level("low", <<900, 1000>>, FALSE, <<>>) >>,
      << Level("critical", <<0, 1000>>, FALSE, <<>>),
         Level("medium", <<500, 1000>>, FALSE, <<>>),
         Level("high", <<0, 600>>, TRUE, <<CondRateHigh>>) >> }

BaseScores == { 1000, 400 }

\* RiskScorer.__init__ followed by _validate_config
NewScorer(base, deductions, levels) ==
    [base_score |-> base,
     deductions |-> deductions,
     risk_levels |-> IF levels = <<>> THEN DefaultRiskLevels ELSE levels]

\* The documented scenario: "5 points per failed check, max 20", ten failed
\* checks, base score 100
ScenarioRule == Rule(CondCritical, 50, TRUE, TRUE, TRUE, 200)
ScenarioScorer == NewScorer(1000, <<ScenarioRule>>, <<>>)
ScenarioChecks == [i \in 1..10 |-> Check("job_status", "Job status", FALSE, "high", 0)]

\* The detector before it is constructed
NoFile ==
    [name |-> <<>>, format |-> "other", df |-> "none", columns |-> <<>>,
     text |-> <<>>]

IdleDetector ==
    /\ report_configs = <<>>
    /\ llm = "none"
    /\ file = NoFile
    /\ dpc = "idle"
    /\ detection = [found |-> FALSE]
    /\ trace = <<>>
    /\ parsed = 0
    /\ queried = <<>>
    /\ prompted = FALSE
    /\ answered = <<>>

\* ---- the scoring run -----------------------------------------------------
InitScorer ==
    /\ \/ /\ \E b \in BaseScores, ds \in SeqsUpTo(RuleSet, MaxRules),
                lv \in RiskLevelConfigs :
                  scorer = NewScorer(b, ds, lv)
          /\ checks \in SeqsUpTo(CheckSet, MaxChecks)
          /\ data \in DataSet
       \/ /\ scorer = ScenarioScorer
          /\ checks = ScenarioChecks
          /\ data = <<>>
    /\ result = NoResult
    /\ spc = "ready"
    /\ IdleDetector
    /\ IdleClassify /\ IdleRun /\ IdleTable /\ IdleDates
    /\ IdleTimeline
    /\ IdleConfig
    /\ IdleAnalyze

DoCalculate ==
    /\ spc = "ready"
    /\ result' = Calculate(scorer, checks, data)
    /\ spc' = "done"
    /\ UNCHANGED <<scorer, checks, data>>
    /\ UNCHANGED outsideScorer

NextScorer == DoCalculate

SpecScorer == InitScorer /\ [][NextScorer]_vars

\* ------------------------------------------------------------------------
\* Properties of the RiskScorer
\* ------------------------------------------------------------------------
Returned == spc = "done" /\ ~result.raised

RECURSIVE SumPoints(_)
SumPoints(entries) ==
    IF entries = <<>> THEN 0
    ELSE Head(entries).points + SumPoints(Tail(entries))

RECURSIVE SumFailedChecks(_)
SumFailedChecks(cks) ==
    IF cks = <<>> THEN 0
    ELSE (IF ~Head(cks).passed THEN Head(cks).points_deducted ELSE 0)
         + SumFailedChecks(Tail(cks))

\* what one rule takes off the score in calculate
RuleTakes(rule) ==
    LET a == ApplyDeduction(rule, checks, data)
    IN  IF a.is_num /\ a.amount > 0 THEN a.amount ELSE 0

RECURSIVE SumRules(_)
SumRules(rules) ==
    IF rules = <<>> THEN 0
    ELSE RuleTakes(Head(rules)) + SumRules(Tail(rules))

IsRuleEntry(e) == e.src = "rule"
IsCheckEntry(e) == e.src = "check"

\* C1: whenever calculate returns, score = clamp(base_score - total_deductions,
\* 0, 100) with total_deductions the sum of the rule deductions and of the
\* failed checks' points_deducted; so 0 <= score <= 100 (tenths: 0..1000).
C1_ScoreIsClampedDifference ==
    Returned =>
        /\ result.total_deductions =
              SumRules(scorer.deductions) + SumFailedChecks(checks)
        /\ result.score =
              (IF scorer.base_score - result.total_deductions < 0 THEN 0
               ELSE IF scorer.base_score - result.total_deductions > 1000 THEN 1000
               ELSE scorer.base_score - result.total_deductions)
        /\ 0 <= result.score /\ result.score <= 1000

\* C1 witness: deductions exceed the base score and the score is held at 0
C1_Witness ==
    /\ Returned
    /\ result.total_deductions > scorer.base_score
    /\ result.score = 0

\* the amount the rule sentence of the scorer contract prescribes
ClaimedAmount(rule, n) ==
    IF rule.per_occurrence
    THEN (IF rule.has_max THEN Min(rule.points * n, rule.max_deduction)
          ELSE rule.points * n)
    ELSE rule.points

RuleFires(rule) ==
    /\ rule.points_is_num
    /\ EvaluateCondition(rule.condition, checks, data) > 0
    /\ ClaimedAmount(rule, EvaluateCondition(rule.condition, checks, data)) > 0

ExpectedRuleEntries ==
    LET fired == SelectSeq(scorer.deductions, RuleFires)
    IN  [i \in 1..Len(fired) |->
           RuleDetail(fired[i],
              ClaimedAmount(fired[i],
                 EvaluateCondition(fired[i].condition, checks, data)))]

IsScenario == scorer = ScenarioScorer /\ checks = ScenarioChecks

\* C2: a rule whose condition holds with n > 0 occurrences deducts
\* min(points * n, max_deduction) when per-occurrence and points otherwise:
\* the rule entries calculate records are exactly these amounts, in rule
\* order; in the documented scenario the deduction is 20 and the score 80.
C2_RuleDeductionAmount ==
    Returned =>
        /\ SelectSeq(result.deduction_details, IsRuleEntry) = ExpectedRuleEntries
        /\ IsScenario =>
              result.total_deductions = 200 /\ result.score = 800

\* C2 witness: the scenario has run, and its cap was the binding term
C2_Witness ==
    /\ Returned /\ IsScenario
    /\ EvaluateCondition(ScenarioRule.condition, checks, data) = 10
    /\ result.score = 800

FailedHighCheck == \E i \in DOMAIN checks :
                      checks[i].severity = "high" /\ ~checks[i].passed

\* C3 as stated: CRITICAL and HIGH both depend on the score
C3_StatusAsStated ==
    Returned =>
        result.status =
          (IF FailedHighCheck THEN StatusError
           ELSE IF result.risk_level \in {RiskCritical, RiskHigh}
                THEN (IF result.score < 400 THEN StatusError ELSE StatusLimited)
           ELSE IF result.risk_level = RiskMedium THEN StatusLimited
           ELSE StatusOk)

\* C3 (amended): status is ERROR if a high-severity check failed; otherwise
\* ERROR for risk CRITICAL whatever the score; for risk HIGH, ERROR when
\* score < 40 and LIMITED when score >= 40; LIMITED for MEDIUM; OK for LOW.
C3_StatusMapping ==
    Returned =>
        result.status =
          (IF FailedHighCheck THEN StatusError
           ELSE IF result.risk_level = RiskCritical THEN StatusError
           ELSE IF result.risk_level = RiskHigh
                THEN (IF result.score < 400 THEN StatusError ELSE StatusLimited)
           ELSE IF result.risk_level = RiskMedium THEN StatusLimited
           ELSE StatusOk)

\* C3 witness: CRITICAL risk at a score of 40 or more, no high-severity
\* failure, and the status is ERROR
C3_Witness ==
    /\ Returned
    /\ ~FailedHighCheck
    /\ result.risk_level = RiskCritical
    /\ result.score >= 400
    /\ result.status = StatusError

\* A condition holds: the aggregate counts at least one check, or the
\* comparison against the extracted field is true
Holds(condition) ==
    CASE condition.kind \in {"missing_required_columns", "data_quality_issues",
                             "critical_errors"} ->
            EvaluateCondition(condition, checks, data) > 0
      [] condition.kind = "gt" ->
            /\ condition.field \in DOMAIN data
            /\ data[condition.field].kind = "num"
            /\ data[condition.field].num > condition.value
      [] condition.kind = "lt" ->
            /\ condition.field \in DOMAIN data
            /\ data[condition.field].kind = "num"
            /\ data[condition.field].num < condition.value
      [] condition.kind = "eq" ->
            /\ condition.field \in DOMAIN data
            /\ data[condition.field].kind = "text"
            /\ data[condition.field].text = condition.text
      [] OTHER -> FALSE

AnyTriggerHolds(name) ==
    \E i \in DOMAIN scorer.risk_levels :
        /\ scorer.risk_levels[i].name = name
        /\ \E j \in DOMAIN scorer.risk_levels[i].triggers :
              Holds(scorer.risk_levels[i].triggers[j])

BandsContaining(score) ==
    { scorer.risk_levels[i].name : i \in
        { k \in DOMAIN scorer.risk_levels :
            /\ scorer.risk_levels[k].name \in {"high", "medium", "low"}
            /\ Len(scorer.risk_levels[k].score_range) = 2
            /\ scorer.risk_levels[k].score_range[1] <= score
            /\ score <= scorer.risk_levels[k].score_range[2] } }

RiskOfName(name) ==
    CASE name = "high" -> RiskHigh
      [] name = "medium" -> RiskMedium
      [] name = "low" -> RiskLow

\* C4: the risk level is CRITICAL if any critical trigger holds; else HIGH if
\* any high trigger holds; else a level whose band contains the score; else
\* high up to 60, medium up to 85, low above.
C4_RiskPrecedence ==
    Returned =>
        IF AnyTriggerHolds("critical") THEN result.risk_level = RiskCritical
        ELSE IF AnyTriggerHolds("high") THEN result.risk_level = RiskHigh
        ELSE IF BandsContaining(result.score) # {}
             THEN \E n \in BandsContaining(result.score) :
                     result.risk_level = RiskOfName(n)
        ELSE result.risk_level =
               (IF result.score <= 600 THEN RiskHigh
                ELSE IF result.score <= 850 THEN RiskMedium
                ELSE RiskLow)

\* C5: every failed check with points_deducted > 0 is deducted exactly once,
\* on top of the rule deductions, with its own entry after the rule entries;
\* passed checks add nothing.
C5_FailedChecksDeductedOnce ==
    Returned =>
        LET mine == SelectSeq(result.deduction_details, IsCheckEntry)
            rules == SelectSeq(result.deduction_details, IsRuleEntry)
            failedOnly == SelectSeq(checks,
                             LAMBDA c : ~c.passed /\ c.points_deducted > 0)
        IN  /\ mine = [i \in 1..Len(failedOnly) |-> CheckDetail(failedOnly[i])]
            /\ result.deduction_details = rules \o mine
            /\ result.total_deductions = SumPoints(rules) + SumFailedChecks(checks)

\* C5 witness: a rule and a failed check both deducted, and a passed check
\* carrying points was left out
C5_Witness ==
    /\ Returned
    /\ \E i \in DOMAIN result.deduction_details :
          result.deduction_details[i].src = "rule"
    /\ \E i \in DOMAIN result.deduction_details :
          result.deduction_details[i].src = "check"
    /\ \E i \in DOMAIN checks : checks[i].passed /\ checks[i].points_deducted > 0

IsComparison(condition) == condition.kind \in {"gt", "lt"}

HasEntryFor(rule) ==
    \E i \in DOMAIN result.deduction_details :
        /\ result.deduction_details[i].src = "rule"
        /\ result.deduction_details[i].condition = rule.condition
        /\ result.deduction_details[i].points >= rule.points

\* C6: a rule with a numeric comparison deducts at least its points whenever
\* the field is present and the comparison is true (field value 0, between
\* -1 and 1, or negative included), and nothing when it is false.
C6_ComparisonRuleDeducts ==
    Returned =>
        \A i \in DOMAIN scorer.deductions :
            LET rule == scorer.deductions[i]
            IN  (IsComparison(rule.condition) /\ rule.points_is_num
                 /\ rule.points > 0)
                => (Holds(rule.condition) <=> HasEntryFor(rule))

RuleMisconfigured(rule) ==
    rule.condition.kind = "malformed" \/ ~rule.points_is_num

\* C7: a rule whose evaluation fails contributes nothing, the other rules
\* and the failed checks are still applied, and calculate returns a result.
C7_RuleFailureContained ==
    spc = "done" =>
        /\ ~result.raised
        /\ \A i \in DOMAIN scorer.deductions :
              RuleMisconfigured(scorer.deductions[i])
              => ~HasEntryFor(scorer.deductions[i])
        /\ result.total_deductions =
              SumRules(scorer.deductions) + SumFailedChecks(checks)

\* ------------------------------------------------------------------------
\* Part 2: ReportDetector
\* Strings are sequences of one-character strings.
\* ------------------------------------------------------------------------
LowerMap ==
    [A |-> "a", B |-> "b", C |-> "c", D |-> "d", E |-> "e", F |-> "f",
     G |-> "g", H |-> "h", I |-> "i", J |-> "j", K |-> "k", L |-> "l",
     M |-> "m", N |-> "n", O |-> "o", P |-> "p", Q |-> "q", R |-> "r",
     S |-> "s", T |-> "t", U |-> "u", V |-> "v", W |-> "w", X |-> "x",
     Y |-> "y", Z |-> "z"]

\* str.lower(), one character and a whole string
LowerChar(c) == IF c \in DOMAIN LowerMap THEN LowerMap[c] ELSE c
Lower(s) == [i \in 1..Len(s) |-> LowerChar(s[i])]

IsDigit(c) == c \in {"0", "1", "2", "3", "4", "5", "6", "7", "8", "9"}

\* Python's "a in b" on strings
IsSubstring(a, b) ==
    \E k \in 0..(Len(b) - Len(a)) : SubSeq(b, k + 1, k + Len(a)) = a

\* A compiled regular expression: literal characters, \d and .*
Lit(c) == [t |-> "lit", c |-> c]
Digit == [t |-> "digit", c |-> ""]
AnyStar == [t |-> "any", c |-> ""]
Lits(s) == [i \in 1..Len(s) |-> Lit(s[i])]

\* src is the pattern text of the configuration; valid is FALSE when
\* compiling it raises re.error
Pattern(src, valid, atoms) == [src |-> src, valid |-> valid, atoms |-> atoms]

\* re.match(pattern, s, re.IGNORECASE): the pattern matches a prefix of s
RECURSIVE ReMatch(_, _)
ReMatch(atoms, s) ==
    IF atoms = <<>> THEN TRUE
    ELSE LET a == Head(atoms)
         IN  CASE a.t = "lit" ->
                    /\ s # <<>>
                    /\ LowerChar(Head(s)) = LowerChar(a.c)
                    /\ ReMatch(Tail(atoms), Tail(s))
               [] a.t = "digit" ->
                    /\ s # <<>>
                    /\ IsDigit(Head(s))
                    /\ ReMatch(Tail(atoms), Tail(s))
               [] a.t = "any" ->
                    \E k \in 0..Len(s) :
                        ReMatch(Tail(atoms), SubSeq(s, k + 1, Len(s)))

\* A confidence is a fraction num/den
Frac(n, d) == [num |-> n, den |-> d]
FracLeq(a, b) == a.num * b.den <= b.num * a.den

NoConfig ==
    [id |-> "", name |-> "", enabled |-> FALSE, filename_patterns |-> <<>>,
     content_identifiers |->
        [present |-> FALSE, required_columns |-> <<>>,
         optional_columns |-> <<>>, required_keywords |-> <<>>,
         optional_keywords |-> <<>>, min_matches |-> 0],
     llm_classification |->
        [enabled |-> FALSE, has_prompt |-> FALSE, confidence_threshold |-> 0]]

\* DetectionResult; found = FALSE models None
NoDetection ==
    [found |-> FALSE, report_type |-> "", report_name |-> "",
     confidence |-> Frac(0, 1), detection_method |-> "",
     matched_patterns |-> <<>>, report_config |-> NoConfig]

DetectionResult(config, confidence, method, matched) ==
    [found |-> TRUE, report_type |-> config.id,
     report_name |-> config.name, confidence |-> confidence,
     detection_method |-> method, matched_patterns |-> matched,
     report_config |-> config]

Evidence(kind, item) == [kind |-> kind, item |-> item]

\* ---- stage 1: _match_filename -------------------------------------------
\* the same loop, aborted by the first pattern that does not compile
RECURSIVE FirstMatchingPatternAborting(_, _, _)
FirstMatchingPatternAborting(patterns, filename, i) ==
    IF i > Len(patterns) THEN 0
    ELSE IF ~patterns[i].valid THEN 0
    ELSE IF ReMatch(patterns[i].atoms, filename) THEN i
    ELSE FirstMatchingPatternAborting(patterns, filename, i + 1)

\* The inner loop over one report type's patterns: index of the first
\* pattern that compiles and matches, 0 when there is none
RECURSIVE FirstMatchingPattern(_, _, _)
FirstMatchingPattern(patterns, filename, i) ==
    IF i > Len(patterns) THEN 0
    ELSE IF patterns[i].valid /\ ReMatch(patterns[i].atoms, filename) THEN i
    ELSE FirstMatchingPattern(patterns, filename, i + 1)

RECURSIVE MatchFilenameFrom(_, _, _)
MatchFilenameFrom(configs, filename, i) ==
    IF i > Len(configs) THEN NoDetection
    ELSE IF ~configs[i].enabled THEN MatchFilenameFrom(configs, filename, i + 1)
    ELSE LET k == FirstMatchingPattern(configs[i].filename_patterns, filename, 1)
         IN  IF k > 0
             THEN DetectionResult(configs[i], Frac(95, 100), "filename",
                     <<Evidence("pattern", configs[i].filename_patterns[k].src)>>)
             ELSE MatchFilenameFrom(configs, filename, i + 1)

MatchFilename(configs, f) == MatchFilenameFrom(configs, f.name, 1)

\* ---- stage 2: _match_content --------------------------------------------
Parsers == {"pdf", "xlsx", "xls", "csv", "html"}

\* any(col.lower() in c.lower() for c in columns)
ColumnFound(col, columns) ==
    \E i \in DOMAIN columns : IsSubstring(Lower(col), Lower(columns[i]))

KeywordFound(keyword, text) == IsSubstring(Lower(keyword), Lower(text))

\* One of the four loops of _calculate_content_score.  Scores are kept in
\* halves: weight 4 is +2, 3 is +1.5, 2 is +1, 1 is +0.5.
RECURSIVE ScoreItems(_, _, _, _, _, _)
ScoreItems(items, hay, byColumn, weight, kind, acc) ==
    IF items = <<>> THEN acc
    ELSE LET hit == IF byColumn THEN ColumnFound(Head(items), hay)
                    ELSE KeywordFound(Head(items), hay)
         IN  ScoreItems(Tail(items), hay, byColumn, weight, kind,
                IF hit
                THEN [score |-> acc.score + weight,
                      matched |-> Append(acc.matched, Evidence(kind, Head(items)))]
                ELSE acc)

WeightRequiredColumn == 4
WeightOptionalColumn == 2
WeightRequiredKeyword == 3
WeightOptionalKeyword == 1

\* ReportDetector._calculate_content_score
CalculateContentScore(columns, text, identifiers) ==
    LET a1 == ScoreItems(identifiers.required_columns, columns, TRUE,
                         WeightRequiredColumn, "column",
                         [score |-> 0, matched |-> <<>>])
        a2 == ScoreItems(identifiers.optional_columns, columns, TRUE,
                         WeightOptionalColumn, "optional_column", a1)
        a3 == ScoreItems(identifiers.required_keywords, text, FALSE,
                         WeightRequiredKeyword, "keyword", a2)
    IN  ScoreItems(identifiers.optional_keywords, text, FALSE,
                   WeightOptionalKeyword, "optional_keyword", a3)

\* The scores dictionary of _match_content, as the sequence of its entries
\* in insertion order
RECURSIVE ContentScores(_, _, _, _)
ContentScores(configs, columns, text, i) ==
    IF i > Len(configs) THEN <<>>
    ELSE LET rest == ContentScores(configs, columns, text, i + 1)
             sc == CalculateContentScore(columns, text,
                                         configs[i].content_identifiers)
         IN  IF ~configs[i].enabled \/ ~configs[i].content_identifiers.present
             THEN rest
             ELSE IF sc.score > 0
                  THEN <<[score |-> sc.score, matched |-> sc.matched,
                          config |-> configs[i]]>> \o rest
                  ELSE rest

\* the first entry that meets its own threshold
BestMatchAboveThreshold(scores) ==
    LET ok == { i \in DOMAIN scores :
                  scores[i].score >= 2 * scores[i].config.content_identifiers.min_matches }
    IN  IF ok = {} THEN scores[1]
        ELSE scores[CHOOSE i \in ok : \A j \in ok : i <= j]

\* max(scores.items(), key=score): the first entry with the greatest score
BestMatch(scores) ==
    LET top == CHOOSE i \in DOMAIN scores :
                  /\ \A j \in DOMAIN scores : scores[j].score <= scores[i].score
                  /\ \A j \in 1..(i - 1) : scores[j].score < scores[i].score
    IN  scores[top]

\* min(0.9, score / (min_matches + 2)), with the score in halves
ContentConfidence(score, min_matches) ==
    IF 9 * (2 * (min_matches + 2)) <= 10 * score
    THEN Frac(9, 10)
    ELSE Frac(score, 2 * (min_matches + 2))

\* The columns and text the parser hands back for the file: df is None or
\* empty gives no columns
ParsedColumns(f) == IF f.df = "table" THEN f.columns ELSE <<>>

\* ReportDetector._match_content
MatchContent(configs, f) ==
    IF f.format \notin Parsers THEN NoDetection
    ELSE IF f.df = "none" /\ f.text = <<>> THEN NoDetection
    ELSE LET scores == ContentScores(configs, ParsedColumns(f), f.text, 1)
         IN  IF scores = <<>> THEN NoDetection
             ELSE LET best == BestMatch(scores)
                      min_matches == best.config.content_identifiers.min_matches
                  IN  IF best.score >= 2 * min_matches
                      THEN DetectionResult(best.config,
                              ContentConfidence(best.score, min_matches),
                              "content", best.matched)
                      ELSE NoDetection

\* ---- stage 3: _classify_with_llm ----------------------------------------
\* What OllamaHandler.classify hands back for one candidate
Response(kind, content, confidence) ==
    [kind |-> kind, content |-> content, confidence |-> confidence]

Responses ==
    { Response("error", "", Frac(100, 100)),
      Response("none", "", Frac(0, 100)),
      Response("ok", "JA", Frac(90, 100)),
      Response("ok", "YES", Frac(75, 100)),
      Response("ok", "NEIN", Frac(100, 100)) }

\* 'JA' in answer or 'YES' in answer, on the upper-cased content
Affirmative(content) == content \in {"JA", "YES"}

\* "response.confidence >= confidence_threshold" (threshold in hundredths)
AboveThresholdAlways(confidence, threshold) == TRUE
AboveThreshold(confidence, threshold) ==
    FracLeq(Frac(threshold, 100), confidence)

\* The candidate loop: answers[i] is what the classifier would answer for
\* candidate i.  Returns the result, the ids queried and the responses
\* received for them.
RECURSIVE ClassifyFrom(_, _, _, _, _)
ClassifyFrom(configs, answers, i, asked, got) ==
    IF i > Len(configs)
    THEN [res |-> NoDetection, asked |-> asked, got |-> got]
    ELSE LET c == configs[i]
             r == answers[i]
             asked2 == Append(asked, c.id)
             got2 == Append(got, r)
         IN  IF ~c.enabled \/ ~c.llm_classification.enabled
                \/ ~c.llm_classification.has_prompt
             THEN ClassifyFrom(configs, answers, i + 1, asked, got)
             ELSE IF r.kind = "none"     \* response.error on None raises
             THEN [res |-> NoDetection, asked |-> asked2, got |-> got2]
             ELSE IF r.kind = "error"
             THEN ClassifyFrom(configs, answers, i + 1, asked2, got2)
             ELSE IF Affirmative(r.content)
                     /\ AboveThreshold(r.confidence,
                                       c.llm_classification.confidence_threshold)
             THEN [res |-> DetectionResult(c, r.confidence, "llm",
                              <<Evidence("llm", <<r.content>>)>>),
                   asked |-> asked2, got |-> got2]
             ELSE ClassifyFrom(configs, answers, i + 1, asked2, got2)

\* ReportDetector._classify_with_llm
ClassifyWithLlm(configs, f, answers) ==
    IF f.format \notin Parsers \/ f.text = <<>>
    THEN [res |-> NoDetection, asked |-> <<>>, got |-> <<>>]
    ELSE ClassifyFrom(configs, answers, 1, <<>>, <<>>)

\* ---- stage 4: _manual_selection -----------------------------------------
UnknownDetection ==
    [found |-> TRUE, report_type |-> "unknown",
     report_name |-> "Unknown Report Type", confidence |-> Frac(1, 1),
     detection_method |-> "manual",
     matched_patterns |-> <<Evidence("manual", <<"unknown">>)>>,
     report_config |-> NoConfig]

EnabledConfigs(configs) == SelectSeq(configs, LAMBDA c : c.enabled)

\* choice is the number the operator typed, or -1 for anything that is not
\* a number
ManualSelection(configs, choice) ==
    LET report_list == EnabledConfigs(configs)
    IN  IF choice < 0 THEN NoDetection
        ELSE IF choice = Len(report_list) + 1 THEN NoDetection
        ELSE IF choice = Len(report_list) + 2 THEN UnknownDetection
        ELSE IF 1 <= choice /\ choice <= Len(report_list)
        THEN DetectionResult(report_list[choice], Frac(1, 1), "manual",
                <<Evidence("manual", <<"selection">>)>>)
        ELSE NoDetection

\* ---- configuration store and files -------------------------------------
Identifiers(present, rc, oc, rk, ok, mm) ==
    [present |-> present, required_columns |-> rc, optional_columns |-> oc,
     required_keywords |-> rk, optional_keywords |-> ok, min_matches |-> mm]

LlmConfig(enabled, prompt, threshold) ==
    [enabled |-> enabled, has_prompt |-> prompt,
     confidence_threshold |-> threshold]

Config(id, name, enabled, patterns, ci, lc) ==
    [id |-> id, name |-> name, enabled |-> enabled,
     filename_patterns |-> patterns, content_identifiers |-> ci,
     llm_classification |-> lc]

StrJob == <<"j", "o", "b">>
StrStatus == <<"s", "t", "a", "t", "u", "s">>
StrSize == <<"s", "i", "z", "e">>
StrDevice == <<"D", "E", "V", "I", "C", "E">>
StrBackup == <<"B", "a", "c", "k", "u", "p">>
StrVeeam == <<"v", "e", "e", "a", "m">>
StrKeepit == <<"k", "e", "e", "p", "i", "t">>

PatUnbalanced == Pattern(<<"(", "v", "e", "e", "a", "m">>, FALSE, <<>>)
PatBackupReport ==
    Pattern(<<"B", "a", "c", "k", "u", "p", "_", "R", "e", "p", "o", "r", "t", "_", "\\", "d", "{", "4", "}", "-", "\\", "d", "{", "2", "}", "\\", ".", "c", "s", "v">>, TRUE,
            Lits(<<"B", "a", "c", "k", "u", "p", "_", "R", "e", "p", "o", "r", "t", "_">>) \o <<Digit, Digit, Digit, Digit>>
              \o <<Lit("-"), Digit, Digit, Lit(".")>> \o Lits(<<"c", "s", "v">>))
PatBackupAny == Pattern(<<"b", "a", "c", "k", "u", "p", ".", "*">>, TRUE, Lits(<<"b", "a", "c", "k", "u", "p">>) \o <<AnyStar>>)
PatAnyDevices == Pattern(<<".", "*", "d", "e", "v", "i", "c", "e", "s">>, TRUE, <<AnyStar>> \o Lits(<<"d", "e", "v", "i", "c", "e", "s">>))
PatAnything == Pattern(<<".", "*">>, TRUE, <<AnyStar>>)

ConfigVeeam ==
    Config("veeam_backup", "Veeam Backup", TRUE,
           <<PatUnbalanced, PatBackupReport>>,
           Identifiers(TRUE, <<StrJob, StrStatus>>, <<StrSize>>,
                       <<StrBackup>>, <<StrVeeam>>, 2),
           LlmConfig(TRUE, TRUE, 70))

ConfigKeepit ==
    Config("keepit_backup", "Keepit Backup", TRUE,
           <<PatBackupAny>>,
           Identifiers(TRUE, <<StrStatus>>, <<>>, <<StrKeepit>>,
                       <<StrBackup>>, 3),
           LlmConfig(FALSE, TRUE, 70))

ConfigEntra ==
    Config("entra_devices", "Entra Devices", TRUE,
           <<PatAnyDevices, PatBackupAny>>,
           Identifiers(TRUE, <<StrDevice>>, <<>>, <<>>, <<>>, 1),
           LlmConfig(TRUE, TRUE, 80))

ConfigDisabled ==
    Config("old_report", "Old Report", FALSE,
           <<PatAnything>>,
           Identifiers(TRUE, <<StrStatus>>, <<>>, <<>>, <<>>, 1),
           LlmConfig(TRUE, TRUE, 50))

ConfigPool == { ConfigVeeam, ConfigKeepit, ConfigEntra, ConfigDisabled }

\* The report-type files of the configuration directory, in glob order:
\* sequences of distinct configurations
ConfigDirs ==
    { s \in SeqsUpTo(ConfigPool, MaxConfigs) :
        \A i, j \in DOMAIN s : i # j => s[i].id # s[j].id }

\* ConfigLoader.load_all_report_configs: disabled report types are skipped
LoadAllReportConfigs(dir) == SelectSeq(dir, LAMBDA c : c.enabled)

FileNames ==
    { <<"B", "a", "c", "k", "u", "p", "_", "R", "e", "p", "o", "r", "t", "_", "2", "0", "2", "4", "-", "0", "5", ".", "c", "s", "v">>,
      <<"B", "A", "C", "K", "U", "P", "_", "r", "e", "p", "o", "r", "t", "_", "2", "0", "3", "1", "-", "1", "2", ".", "C", "S", "V">>,
      <<"m", "y", "_", "b", "a", "c", "k", "u", "p", ".", "c", "s", "v">>,
      <<"b", "a", "c", "k", "u", "p", ".", "c", "s", "v">>,
      <<"d", "e", "v", "i", "c", "e", "s", ".", "t", "x", "t">> }

\* file_path.suffix[1:].lower()
RECURSIVE LastDot(_, _)
LastDot(s, i) == IF i = 0 THEN 0 ELSE IF s[i] = "." THEN i ELSE LastDot(s, i - 1)

FormatOf(name) ==
    LET d == LastDot(name, Len(name))
        ext == IF d <= 1 THEN <<>> ELSE Lower(SubSeq(name, d + 1, Len(name)))
    IN  CASE ext = <<"c", "s", "v">> -> "csv"
          [] ext = <<"p", "d", "f">> -> "pdf"
          [] ext = <<"x", "l", "s">> -> "xls"
          [] ext = <<"x", "l", "s", "x">> -> "xlsx"
          [] ext = <<"h", "t", "m", "l">> -> "html"
          [] OTHER -> "other"

ColumnSets ==
    { <<<<"J", "o", "b", " ", "N", "a", "m", "e">>, <<"S", "T", "A", "T", "U", "S">>>>,
      <<<<"S", "t", "a", "t", "u", "s">>, <<"D", "e", "v", "i", "c", "e", " ", "I", "D">>>>,
      <<<<"S", "i", "z", "e">>>> }

Texts ==
    { <<>>, <<"M", "o", "n", "t", "h", "l", "y", " ", "B", "A", "C", "K", "U", "P">>, <<"K", "e", "e", "p", "i", "t", " ", "b", "a", "c", "k", "u", "p", " ", "o", "f", " ", "V", "e", "e", "a", "m">> }

\* df is "none" (parsing failed), "empty" or "table"
Files ==
    { [name |-> n, format |-> FormatOf(n), df |-> d, columns |-> c, text |-> t] :
        n \in FileNames, d \in {"none", "table"}, c \in ColumnSets, t \in Texts }
    \cup
    { [name |-> n, format |-> FormatOf(n), df |-> "empty", columns |-> <<>>,
       text |-> <<>>] : n \in FileNames }

\* ---- detect as a state machine -----------------------------------------
IdleScorer ==
    /\ scorer = NewScorer(1000, <<>>, <<>>)
    /\ checks = <<>>
    /\ data = <<>>
    /\ result = NoResult
    /\ spc = "idle"

\* ReportDetector.__init__, and detect entered with a file
InitDetect ==
    /\ IdleScorer
    /\ IdleClassify /\ IdleRun /\ IdleTable /\ IdleDates
    /\ IdleTimeline
    /\ IdleConfig
    /\ IdleAnalyze
    /\ \E dir \in ConfigDirs : report_configs = LoadAllReportConfigs(dir)
    /\ llm \in {"none", "down", "up"}
    /\ file \in Files
    /\ dpc = "filename"
    /\ detection = NoDetection
    /\ trace = <<>>
    /\ parsed = 0
    /\ queried = <<>>
    /\ prompted = FALSE
    /\ answered = <<>>

\* "if result: return result", else go on with the next stage
AfterStageNoReturn(res, next) == next
AfterStage(res, next) == IF res.found THEN "done" ELSE next

\* Stage 1
StageFilename ==
    /\ dpc = "filename"
    /\ LET res == MatchFilename(report_configs, file)
       IN  /\ detection' = res
           /\ dpc' = AfterStage(res, "content")
    /\ trace' = Append(trace, "filename")
    /\ UNCHANGED <<report_configs, llm, file, parsed, queried, prompted,
                   answered>>
    /\ UNCHANGED outsideDetect

\* Stage 2
StageContent ==
    /\ dpc = "content"
    /\ LET res == MatchContent(report_configs, file)
       IN  /\ detection' = res
           /\ dpc' = AfterStage(res, "llm")
    /\ trace' = Append(trace, "content")
    /\ parsed' = IF file.format \in Parsers THEN parsed + 1 ELSE parsed
    /\ UNCHANGED <<report_configs, llm, file, queried, prompted, answered>>
    /\ UNCHANGED outsideDetect

\* Stage 3, entered only with a handler that is available
StageLlm ==
    /\ dpc = "llm"
    /\ llm = "up"
    /\ \E answers \in [DOMAIN report_configs -> Responses] :
         LET out == ClassifyWithLlm(report_configs, file, answers)
         IN  /\ detection' = out.res
             /\ dpc' = AfterStage(out.res, "manual")
             /\ queried' = out.asked
             /\ answered' = out.got
    /\ trace' = Append(trace, "llm")
    /\ parsed' = IF file.format \in Parsers THEN parsed + 1 ELSE parsed
    /\ UNCHANGED <<report_configs, llm, file, prompted>>
    /\ UNCHANGED outsideDetect

\* Stage 3 left out: no handler, or is_available() is false
SkipLlm ==
    /\ dpc = "llm"
    /\ llm # "up"
    /\ dpc' = "manual"
    /\ UNCHANGED <<report_configs, llm, file, detection, trace, parsed,
                   queried, prompted, answered>>
    /\ UNCHANGED outsideDetect

\* Stage 4; the preview parses the file again
StageManual ==
    /\ dpc = "manual"
    /\ \E choice \in -1..(Len(report_configs) + 3) :
         detection' = ManualSelection(report_configs, choice)
    /\ dpc' = "done"
    /\ trace' = Append(trace, "manual")
    /\ parsed' = IF file.format \in Parsers THEN parsed + 1 ELSE parsed
    /\ prompted' = TRUE
    /\ UNCHANGED <<report_configs, llm, file, queried, answered>>
    /\ UNCHANGED outsideDetect

NextDetect ==
    \/ StageFilename
    \/ StageContent
    \/ StageLlm
    \/ SkipLlm
    \/ StageManual

SpecDetect == InitDetect /\ [][NextDetect]_vars

\* ------------------------------------------------------------------------
\* Properties of the ReportDetector
\* ------------------------------------------------------------------------
StageTraces ==
    { <<>>, <<"filename">>, <<"filename", "content">>,
      <<"filename", "content", "llm">>,
      <<"filename", "content", "manual">>,
      <<"filename", "content", "llm", "manual">> }

\* C8: detect runs filename, content, external classifier, manual in this
\* order and stops at the first stage that returns a result: no stage runs
\* after a stage whose matching produced a result, so a result of the
\* filename stage comes without any parsing, classifier call or prompt, one
\* of the content stage without classifier call or prompt, one of the
\* classifier without prompt; the result's method names the last stage run.
C8_StagesShortCircuit ==
    /\ trace \in StageTraces
    /\ Len(trace) >= 2 => ~MatchFilename(report_configs, file).found
    /\ Len(trace) >= 3 => ~MatchContent(report_configs, file).found
    /\ detection.found =>
         /\ dpc = "done"
         /\ detection.detection_method = trace[Len(trace)]
         /\ detection.detection_method = "filename" =>
               parsed = 0 /\ queried = <<>> /\ ~prompted
         /\ detection.detection_method = "content" =>
               parsed = 1 /\ queried = <<>> /\ ~prompted
         /\ detection.detection_method = "llm" => ~prompted

\* C8 witness: the content stage returned a result while a classifier was
\* available; it was never queried and nobody was prompted
C8_Witness ==
    /\ dpc = "done"
    /\ detection.found
    /\ detection.detection_method = "content"
    /\ trace = <<"filename", "content">>
    /\ llm = "up"
    /\ \E i \in DOMAIN report_configs :
          report_configs[i].llm_classification.enabled
    /\ queried = <<>>
    /\ ~prompted

\* report types one of whose patterns compiles and matches the file name
FilenameCandidates ==
    { i \in DOMAIN report_configs :
        /\ report_configs[i].enabled
        /\ \E k \in DOMAIN report_configs[i].filename_patterns :
              /\ report_configs[i].filename_patterns[k].valid
              /\ ReMatch(report_configs[i].filename_patterns[k].atoms, file.name) }

FirstFilenameCandidate ==
    CHOOSE i \in FilenameCandidates : \A j \in FilenameCandidates : i <= j

MatchingPatterns(i) ==
    { k \in DOMAIN report_configs[i].filename_patterns :
        /\ report_configs[i].filename_patterns[k].valid
        /\ ReMatch(report_configs[i].filename_patterns[k].atoms, file.name) }

ScenarioFileNames ==
    { <<"B", "a", "c", "k", "u", "p", "_", "R", "e", "p", "o", "r", "t", "_", "2", "0", "2", "4", "-", "0", "5", ".", "c", "s", "v">>, <<"B", "A", "C", "K", "U", "P", "_", "r", "e", "p", "o", "r", "t", "_", "2", "0", "3", "1", "-", "1", "2", ".", "C", "S", "V">> }

\* C9: the filename stage returns the first report type, in configuration
\* order, that has a pattern matching the file name case-insensitively,
\* with its first such pattern, confidence 0.95 and method 'filename';
\* a pattern that does not compile is passed over; no match, no result.
C9_FilenameFirstMatch ==
    trace = <<"filename">> =>
        /\ detection.found <=> FilenameCandidates # {}
        /\ detection.found =>
             LET c == report_configs[FirstFilenameCandidate]
                 k == CHOOSE k \in MatchingPatterns(FirstFilenameCandidate) :
                         \A m \in MatchingPatterns(FirstFilenameCandidate) : k <= m
             IN  /\ detection.report_type = c.id
                 /\ detection.report_name = c.name
                 /\ detection.report_config = c
                 /\ detection.confidence = Frac(95, 100)
                 /\ detection.detection_method = "filename"
                 /\ detection.matched_patterns =
                       <<Evidence("pattern", c.filename_patterns[k].src)>>
        /\ (file.name \in ScenarioFileNames
            /\ \E i \in DOMAIN report_configs : report_configs[i] = ConfigVeeam)
           => /\ detection.found
              /\ detection.detection_method = "filename"
              /\ detection.confidence = Frac(95, 100)

\* C9 witness: two report types match the scenario file name, the first one
\* is returned, through its second pattern (the first does not compile)
C9_Witness ==
    /\ trace = <<"filename">>
    /\ file.name = <<"B", "a", "c", "k", "u", "p", "_", "R", "e", "p", "o", "r", "t", "_", "2", "0", "2", "4", "-", "0", "5", ".", "c", "s", "v">>
    /\ report_configs = <<ConfigVeeam, ConfigKeepit>>
    /\ FilenameCandidates = {1, 2}
    /\ detection.report_type = "veeam_backup"
    /\ detection.matched_patterns = <<Evidence("pattern", PatBackupReport.src)>>

\* The content score of report type i, in halves, counted item by item
ClaimedScore(i) ==
    LET ci == report_configs[i].content_identifiers
        cols == ParsedColumns(file)
    IN  4 * Cardinality({ k \in DOMAIN ci.required_columns :
                            ColumnFound(ci.required_columns[k], cols) })
        + 2 * Cardinality({ k \in DOMAIN ci.optional_columns :
                            ColumnFound(ci.optional_columns[k], cols) })
        + 3 * Cardinality({ k \in DOMAIN ci.required_keywords :
                            KeywordFound(ci.required_keywords[k], file.text) })
        + Cardinality({ k \in DOMAIN ci.optional_keywords :
                            KeywordFound(ci.optional_keywords[k], file.text) })

ContentCandidates ==
    { i \in DOMAIN report_configs :
        /\ report_configs[i].enabled
        /\ report_configs[i].content_identifiers.present
        /\ ClaimedScore(i) > 0 }

\* the candidate with the highest score, the first one among equals
TopCandidate ==
    CHOOSE i \in ContentCandidates :
        /\ \A j \in ContentCandidates : ClaimedScore(j) <= ClaimedScore(i)
        /\ \A j \in ContentCandidates :
              ClaimedScore(j) = ClaimedScore(i) => i <= j

ContentRead ==
    /\ file.format \in Parsers
    /\ ~(file.df = "none" /\ file.text = <<>>)

MeetsOwnThreshold(i) ==
    ClaimedScore(i) >= 2 * report_configs[i].content_identifiers.min_matches

\* C10: candidates score +2 / +1 / +1.5 / +0.5 per required column, optional
\* column, required keyword, optional keyword found; the content stage
\* returns the highest-scoring candidate if and only if that candidate's
\* score reaches its own min_matches, with confidence
\* min(0.9, score / (min_matches + 2)); otherwise it returns nothing, also
\* when a lower-scoring candidate reaches its own threshold.
C10_ContentBestOrNothing ==
    trace = <<"filename", "content">> =>
        IF ~ContentRead \/ ContentCandidates = {}
        THEN ~detection.found
        ELSE LET c == report_configs[TopCandidate]
                 s == ClaimedScore(TopCandidate)
                 mm == c.content_identifiers.min_matches
             IN  /\ detection.found <=> MeetsOwnThreshold(TopCandidate)
                 /\ detection.found =>
                      /\ detection.report_type = c.id
                      /\ detection.report_config = c
                      /\ detection.detection_method = "content"
                      /\ FracLeq(detection.confidence, Frac(9, 10))
                      /\ IF 9 * 2 * (mm + 2) <= 10 * s
                         THEN detection.confidence = Frac(9, 10)
                         ELSE detection.confidence.num * 2 * (mm + 2)
                                = s * detection.confidence.den

\* C10 witness: the top candidate misses its threshold, a lower-scoring
\* one reaches its own, and the stage returned nothing
C10_Witness ==
    /\ trace = <<"filename", "content">>
    /\ ContentRead
    /\ ContentCandidates # {}
    /\ ~MeetsOwnThreshold(TopCandidate)
    /\ \E i \in ContentCandidates :
          /\ ClaimedScore(i) < ClaimedScore(TopCandidate)
          /\ MeetsOwnThreshold(i)
    /\ ~detection.found

\* ---- the classifier stage ----------------------------------------------
\* The positions of the candidates the classifier stage submits: enabled,
\* classification enabled, with a prompt
LlmCandidates ==
    { i \in DOMAIN report_configs :
        /\ report_configs[i].enabled
        /\ report_configs[i].llm_classification.enabled
        /\ report_configs[i].llm_classification.has_prompt }

\* their ids in configuration order
RECURSIVE LlmCandidateIdsFrom(_)
LlmCandidateIdsFrom(i) ==
    IF i > Len(report_configs) THEN <<>>
    ELSE IF i \in LlmCandidates
         THEN <<report_configs[i].id>> \o LlmCandidateIdsFrom(i + 1)
         ELSE LlmCandidateIdsFrom(i + 1)

ConfigOfId(id) ==
    report_configs[CHOOSE i \in DOMAIN report_configs : report_configs[i].id = id]

\* the k-th candidate queried answered JA or YES
AnsweredAffirmative(k) ==
    /\ answered[k].kind = "ok"
    /\ answered[k].content \in {"JA", "YES"}

\* ... with a confidence of at least that candidate's threshold
AnswerAccepted(k) ==
    /\ AnsweredAffirmative(k)
    /\ ConfigOfId(queried[k]).llm_classification.confidence_threshold
          * answered[k].confidence.den
       <= 100 * answered[k].confidence.num

LlmStageRan == trace # <<>> /\ trace[Len(trace)] = "llm"

\* C11: the classifier stage queries the classification-enabled candidates
\* in configuration order, one answer per query; it returns the first
\* queried candidate whose answer is JA or YES with a confidence of at least
\* that candidate's threshold, with the classifier's confidence; nothing is
\* queried after the accepted candidate, and an affirmative answer below
\* the threshold is not accepted.
C11_FirstAcceptedAnswerWins ==
    LlmStageRan =>
        LET ids == LlmCandidateIdsFrom(1)
            n == Len(queried)
        IN  /\ Len(answered) = n
            /\ n <= Len(ids)
            /\ queried = SubSeq(ids, 1, n)
            /\ \A k \in 1..(n - 1) : ~AnswerAccepted(k)
            /\ detection.found <=> (n > 0 /\ AnswerAccepted(n))
            /\ detection.found =>
                 /\ detection.report_type = queried[n]
                 /\ detection.report_config = ConfigOfId(queried[n])
                 /\ detection.detection_method = "llm"
                 /\ detection.confidence = answered[n].confidence

\* C11 witness: the first candidate answered YES below its threshold and was
\* passed over, the second answered YES with the same confidence, which
\* reaches its lower threshold, and was returned
C11_Witness ==
    /\ LlmStageRan
    /\ Len(queried) = 2
    /\ AnsweredAffirmative(1) /\ ~AnswerAccepted(1)
    /\ AnswerAccepted(2)
    /\ answered[1].confidence = answered[2].confidence
    /\ detection.found
    /\ detection.report_type = queried[2]

\* C12 (as stated): whatever goes wrong with the classifier for one
\* candidate counts as no answer for that candidate only: unless a candidate
\* is accepted, every classification-enabled candidate is queried, and then
\* the stage has no result and detect goes on to the manual stage.
C12_FailureSkipsOneCandidate ==
    (LlmStageRan /\ file.format \in Parsers /\ file.text # <<>>) =>
        \/ detection.found
        \/ /\ queried = LlmCandidateIdsFrom(1)
           /\ dpc = "manual"

\* ------------------------------------------------------------------------
\* Part 3: OllamaHandler.classify
\* ------------------------------------------------------------------------
\* LLMResponse: error is <<>> for None, <<text>> for a string
LLMResponse(content, confidence, error) ==
    [kind |-> "LLMResponse", content |-> content, confidence |-> confidence,
     error |-> error]

\* classify falls off its end without a return statement
ReturnedNone == [kind |-> "None"]

\* str.strip() for blanks
RECURSIVE Strip(_)
Strip(s) ==
    IF s = <<>> THEN s
    ELSE IF s[1] = " " THEN Strip(Tail(s))
    ELSE IF s[Len(s)] = " " THEN Strip(SubSeq(s, 1, Len(s) - 1))
    ELSE s

StartsWith(s, prefix) ==
    Len(prefix) <= Len(s) /\ SubSeq(s, 1, Len(prefix)) = prefix

\* The options the detector passes to classify
ClassifyOptions == << <<"J", "A">>, <<"N", "E", "I", "N">>, <<"Y", "E", "S">>, <<"N", "O">> >>

\* First option satisfying each test of _validate_classification, 0 if none
FirstExact(response_lower, options) ==
    LET hits == { i \in DOMAIN options : Lower(options[i]) = response_lower }
    IN  IF hits = {} THEN 0 ELSE CHOOSE i \in hits : \A j \in hits : i <= j

FirstContained(response_lower, options) ==
    LET hits == { i \in DOMAIN options :
                    IsSubstring(Lower(options[i]), response_lower) }
    IN  IF hits = {} THEN 0 ELSE CHOOSE i \in hits : \A j \in hits : i <= j

FirstPrefix(response_lower, options) ==
    LET hits == { i \in DOMAIN options :
                    StartsWith(response_lower, Lower(options[i])) }
    IN  IF hits = {} THEN 0 ELSE CHOOSE i \in hits : \A j \in hits : i <= j

\* OllamaHandler._validate_classification
ValidateClassification(response, valid_options) ==
    LET response_lower == Strip(Lower(response))
        e == FirstExact(response_lower, valid_options)
        c == FirstContained(response_lower, valid_options)
        p == FirstPrefix(response_lower, valid_options)
    IN  IF e > 0 THEN valid_options[e]
        ELSE IF c > 0 THEN valid_options[c]
        ELSE IF p > 0 THEN valid_options[p]
        ELSE response

HighConfidenceWords ==
    { <<"d", "e", "f", "i", "n", "i", "t", "e", "l", "y">>, <<"c", "e", "r", "t", "a", "i", "n", "l", "y">>, <<"a", "b", "s", "o", "l", "u", "t", "e", "l", "y">>, <<"c", "l", "e", "a", "r", "l", "y">> }
MediumConfidenceWords == { <<"p", "r", "o", "b", "a", "b", "l", "y">>, <<"l", "i", "k", "e", "l", "y">>, <<"a", "p", "p", "e", "a", "r", "s">>, <<"s", "e", "e", "m", "s">> }
LowConfidenceWords == { <<"p", "o", "s", "s", "i", "b", "l", "y">>, <<"m", "a", "y", "b", "e">>, <<"m", "i", "g", "h", "t">>, <<"c", "o", "u", "l", "d", " ", "b", "e">> }

ContainsAny(words, text) == \E w \in words : IsSubstring(w, text)

\* A number captured by one of the confidence patterns: value in hundredths,
\* or not a number for float() ("1.2.3")
Captured(valid, value) == [valid |-> valid, value |-> value]

\* "if value > 1: value = value / 100", then min(1.0, max(0.0, value))
ConfidenceOfValue(value) ==
    LET v == IF value > 100 THEN Frac(value, 10000) ELSE Frac(value, 100)
    IN  IF FracLeq(Frac(1, 1), v) THEN Frac(1, 1)
        ELSE IF FracLeq(v, Frac(0, 1)) THEN Frac(0, 1)
        ELSE v

\* OllamaHandler._extract_confidence.  captures are the groups found by the
\* confidence patterns that match, in pattern order.
RECURSIVE ExtractConfidenceFrom(_, _, _)
ExtractConfidenceFrom(text, captures, i) ==
    IF i <= Len(captures)
    THEN IF captures[i].valid THEN ConfidenceOfValue(captures[i].value)
         ELSE ExtractConfidenceFrom(text, captures, i + 1)
    ELSE LET response_lower == Lower(text)
         IN  IF ContainsAny(HighConfidenceWords, response_lower)
             THEN Frac(9, 10)
             ELSE IF ContainsAny(LowConfidenceWords, response_lower)
             THEN Frac(5, 10)
             ELSE IF ContainsAny(MediumConfidenceWords, response_lower)
             THEN Frac(7, 10)
             ELSE Frac(8, 10)

ExtractConfidence(text, captures) == ExtractConfidenceFrom(text, captures, 1)

\* What client.generate can do on one call
Reply(text, captures) ==
    [kind |-> "reply", text |-> text, captures |-> captures, msg |-> ""]
Malformed ==
    [kind |-> "malformed", text |-> <<>>, captures |-> <<>>, msg |-> ""]
Raises(msg) ==
    [kind |-> "raises", text |-> <<>>, captures |-> <<>>, msg |-> msg]

Replies ==
    { Reply(<<"J", "a">>, <<>>),
      Reply(<<" ", "y", "e", "s", ",", " ", "d", "e", "f", "i", "n", "i", "t", "e", "l", "y", " ">>, <<>>),
      Reply(<<"N", "e", "i", "n", ",", " ", "c", "o", "n", "f", "i", "d", "e", "n", "c", "e", ":", " ", "8", "5">>, <<Captured(TRUE, 8500)>>),
      Reply(<<"m", "a", "y", "b", "e">>, <<>>),
      Reply(<<"u", "n", "k", "n", "o", "w", "n", ",", " ", "c", "o", "n", "f", "i", "d", "e", "n", "c", "e", ":", " ", "2", "5", "0">>, <<Captured(TRUE, 25000)>>),
      Reply(<<"p", "r", "o", "b", "a", "b", "l", "y", " ", "j", "a", ",", " ", "c", "o", "n", "f", "i", "d", "e", "n", "c", "e", ":", " ", "1", ".", "2", ".", "3">>, <<Captured(FALSE, 0)>>) }

ErrorTexts == { "", "connection refused" }

\* classify is entered on a handler as constructed
InitClassify ==
    /\ IdleScorer /\ IdleDetector /\ IdleRun /\ IdleTable /\ IdleDates
    /\ IdleTimeline
    /\ IdleConfig
    /\ IdleAnalyze
    /\ max_retries \in 1..MaxRetries
    /\ client \in BOOLEAN
    /\ template_ok \in BOOLEAN
    /\ cpc = "start"
    /\ attempt = 0
    /\ calls = 0
    /\ sleeps = <<>>
    /\ outcomes = <<>>
    /\ classified = [kind |-> "nothing"]

\* "if not self.client: return LLMResponse(content="", error=...)"
ClassifyWithoutClient ==
    /\ cpc = "start"
    /\ ~client
    /\ classified' = LLMResponse(<<>>, Frac(1, 1),
                                 <<"Ollama client not initialized">>)
    /\ cpc' = "returned"
    /\ UNCHANGED <<max_retries, client, template_ok, attempt, calls, sleeps,
                   outcomes>>
    /\ UNCHANGED outsideClassify

\* prompt_template.format(...): a template with a stray placeholder raises
\* KeyError, which the outer handler turns into an error response
FormatPrompt ==
    /\ cpc = "start"
    /\ client
    /\ IF template_ok
       THEN /\ cpc' = "attempt"
            /\ UNCHANGED classified
       ELSE /\ cpc' = "returned"
            /\ classified' = LLMResponse(<<>>, Frac(1, 1), <<"'name'">>)
    /\ UNCHANGED <<max_retries, client, template_ok, attempt, calls, sleeps,
                   outcomes>>
    /\ UNCHANGED outsideClassify

\* One pass of "for attempt in range(self.max_retries)" whose call returns
\* a body with a response text
GenerateReplies ==
    /\ cpc = "attempt"
    /\ attempt < max_retries
    /\ \E o \in Replies :
         LET content == Strip(o.text)
         IN  /\ outcomes' = Append(outcomes, o.kind)
             /\ classified' =
                  LLMResponse(ValidateClassification(content, ClassifyOptions),
                              ExtractConfidence(content, o.captures), <<>>)
    /\ calls' = calls + 1
    /\ cpc' = "returned"
    /\ UNCHANGED <<max_retries, client, template_ok, attempt, sleeps>>
    /\ UNCHANGED outsideClassify

\* ... whose call returns nothing usable ("if response and 'response' in
\* response" is false): the loop goes on at once, and after the last pass
\* the function ends without a return statement
GenerateMalformed ==
    /\ cpc = "attempt"
    /\ attempt < max_retries
    /\ outcomes' = Append(outcomes, Malformed.kind)
    /\ calls' = calls + 1
    /\ IF attempt + 1 < max_retries
       THEN /\ attempt' = attempt + 1
            /\ UNCHANGED <<cpc, classified>>
       ELSE /\ cpc' = "returned"
            /\ classified' = ReturnedNone
            /\ UNCHANGED attempt
    /\ UNCHANGED <<max_retries, client, template_ok, sleeps>>
    /\ UNCHANGED outsideClassify

\* ... whose call (or the handling of its body) raises: sleep 2 ** attempt
\* and go on, or re-raise on the last pass into the outer handler
GenerateRaises ==
    /\ cpc = "attempt"
    /\ attempt < max_retries
    /\ \E msg \in ErrorTexts :
         /\ outcomes' = Append(outcomes, Raises(msg).kind)
         /\ IF attempt < max_retries - 1
            THEN /\ sleeps' = Append(sleeps, 2 ^ attempt)
                 /\ attempt' = attempt + 1
                 /\ UNCHANGED <<cpc, classified>>
            ELSE /\ cpc' = "returned"
                 /\ classified' = LLMResponse(<<>>, Frac(1, 1), <<msg>>)
                 /\ UNCHANGED <<attempt, sleeps>>
    /\ calls' = calls + 1
    /\ UNCHANGED <<max_retries, client, template_ok>>
    /\ UNCHANGED outsideClassify

NextClassify ==
    \/ ClassifyWithoutClient
    \/ FormatPrompt
    \/ GenerateReplies
    \/ GenerateMalformed
    \/ GenerateRaises

SpecClassify == InitClassify /\ [][NextClassify]_vars

\* the waits 2^0, 2^1, ... after each of the first n attempts
Backoff(n) == [k \in 1..n |-> 2 ^ (k - 1)]

\* C13 (as stated): every classify call ends after at most max_retries
\* classifier calls and returns an LLMResponse carrying either an answer
\* with a confidence in [0, 1] or a non-empty error; it has waited 2^k
\* seconds after every failed attempt k but the last one.
C13_ClassifyReturnsResponse ==
    cpc = "returned" =>
        /\ calls <= max_retries
        /\ classified.kind = "LLMResponse"
        /\ \/ /\ classified.error = <<>>
              /\ FracLeq(Frac(0, 1), classified.confidence)
              /\ FracLeq(classified.confidence, Frac(1, 1))
           \/ /\ classified.error # <<>>
              /\ classified.error[1] # ""
        /\ sleeps = Backoff(IF calls = 0 THEN 0 ELSE calls - 1)

\* ------------------------------------------------------------------------
\* Part 4: ReportAnalysisTool.run
\* ------------------------------------------------------------------------
StatusNotAnalysed == "nicht_erfolgreich_analysiert"

\* An input file: its name, and the month its name spells out, if any
InputFile(name, name_month) == [name |-> name, name_month |-> name_month]

FilePool ==
    { InputFile("veeam_2024-05.csv", "2024-05"),
      InputFile("keepit_2024-06.csv", "2024-06"),
      InputFile("devices.csv", "none"),
      InputFile("notes.pdf", "none") }

\* validate_input_files: the valid files of the input directory, or the one
\* file of input_path
Batches ==
    { s \in SeqsUpTo(FilePool, MaxFiles) :
        /\ Len(s) >= 1
        /\ \A i, j \in DOMAIN s : i # j => s[i] # s[j] }

\* An AnalysisResult, as far as run looks at it.  month is what
\* _extract_report_month finds in it.
AnalysisResult(f, report_type, result_status, method, month, error) ==
    [kind |-> "AnalysisResult", file |-> f.name, report_type |-> report_type,
     result_status |-> result_status, method |-> method, month |-> month,
     error |-> error]

\* ReportAnalysisTool._create_failed_result
CreateFailedResult(f, error_message) ==
    AnalysisResult(f, "unknown", StatusNotAnalysed, "failed", f.name_month,
                   error_message)

\* What detection and analysis of one file can come to
Processing(kind, report_type, result_status, data_month) ==
    [kind |-> kind, report_type |-> report_type,
     result_status |-> result_status, data_month |-> data_month]

Processings ==
    { Processing("miss", "", "", ""),
      Processing("raises", "", "", ""),
      Processing("analysed", "veeam_backup", "ok", "2024-04"),
      Processing("analysed", "keepit_backup", "fehler", "none") }

\* ReportAnalysisTool._process_single_file
ProcessSingleFile(f, p) ==
    IF p.kind = "miss" THEN CreateFailedResult(f, "Unknown report type")
    ELSE AnalysisResult(f, p.report_type, p.result_status, "algorithmic",
                        IF p.data_month # "none" THEN p.data_month
                        ELSE f.name_month, "")

\* What happened to one file
Event(f, processing, archiving) ==
    [file |-> f.name, processing |-> processing, archiving |-> archiving]

InitRun ==
    /\ IdleScorer /\ IdleDetector /\ IdleClassify /\ IdleTable /\ IdleDates
    /\ IdleTimeline
    /\ IdleConfig
    /\ IdleAnalyze
    /\ files \in Batches
    /\ archive_processed \in BOOLEAN
    /\ single \in BOOLEAN
    /\ single => Len(files) = 1
    /\ rpc = "process"
    /\ fi = 1
    /\ results = <<>>
    /\ warnings = <<>>
    /\ archived = <<>>
    /\ last_result = [kind |-> "unbound"]
    /\ happened = <<>>
    /\ run_ok = "running"

\* The try block of one pass of the loop over the files: a result, or an
\* exception, which is answered with a failed result
ResultsAfterDroppingFailure(res, f, p) ==
    IF p.kind = "raises" THEN res
    ELSE Append(res, ProcessSingleFile(f, p))
ResultsAfter(res, f, p) ==
    IF p.kind = "raises"
    THEN Append(res, CreateFailedResult(f, "processing failed"))
    ELSE Append(res, ProcessSingleFile(f, p))

ProcessFile ==
    /\ rpc = "process"
    /\ fi <= Len(files)
    /\ \E p \in Processings :
         /\ results' = ResultsAfter(results, files[fi], p)
         /\ last_result' = IF p.kind = "raises" THEN last_result
                           ELSE ProcessSingleFile(files[fi], p)
         /\ happened' = Append(happened, Event(files[fi], p.kind, "pending"))
    /\ rpc' = "archive"
    /\ UNCHANGED <<files, archive_processed, single, fi, warnings, archived,
                   run_ok>>
    /\ UNCHANGED outsideRun

\* The archiving block of the same pass.  result is read before anything
\* else: it is unbound when the first file raised, and is the previous
\* file's result when a later one raised.
ArchiveFile ==
    /\ rpc = "archive"
    /\ \E outcome \in {"moved", "not_moved", "raises"} :
         LET f == files[fi]
             how == IF ~(archive_processed /\ ~single) THEN "skipped"
                    ELSE IF last_result.kind = "unbound" THEN "raises"
                    ELSE outcome
         IN  /\ warnings' = IF how = "raises" THEN Append(warnings, f.name)
                            ELSE warnings
             /\ archived' = IF how = "moved"
                            THEN Append(archived,
                                   [file |-> f.name,
                                    month |-> last_result.month])
                            ELSE archived
             /\ happened' = [happened EXCEPT ![fi].archiving = how]
    /\ IF fi < Len(files)
       THEN fi' = fi + 1 /\ rpc' = "process"
       ELSE fi' = fi /\ rpc' = "save"
    /\ UNCHANGED <<files, archive_processed, single, results, last_result,
                   run_ok>>
    /\ UNCHANGED outsideRun

\* "if results: save_results(...); return True"; a failure to save ends in
\* the handler around the whole run
SaveResults ==
    /\ rpc = "save"
    /\ \E saved \in BOOLEAN : run_ok' = IF results # <<>> /\ saved
                                        THEN "true" ELSE "false"
    /\ rpc' = "done"
    /\ UNCHANGED <<files, archive_processed, single, fi, results, warnings,
                   archived, last_result, happened>>
    /\ UNCHANGED outsideRun

NextRun ==
    \/ ProcessFile
    \/ ArchiveFile
    \/ SaveResults

SpecRun == InitRun /\ [][NextRun]_vars

\* how many files have been through the try block
Processed == Len(happened)

IsFailedResult(r) ==
    /\ r.report_type = "unknown"
    /\ r.result_status = StatusNotAnalysed
    /\ r.method = "failed"

\* C14: run handles the files in order and records exactly one result per
\* file, whatever happened to the others: a file whose detection found
\* nothing, or whose processing raised, has a failed result with report type
\* "unknown" and status nicht_erfolgreich_analysiert; a file whose archiving
\* raised has a warning; and when the loop is over every file of the batch
\* has its result.
C14_OneResultPerFile ==
    /\ Len(results) = Processed
    /\ Processed = (IF rpc = "process" THEN fi - 1 ELSE fi)
    /\ rpc \in {"save", "done"} => Processed = Len(files)
    /\ \A k \in 1..Processed :
         /\ results[k].file = files[k].name
         /\ happened[k].file = files[k].name
         /\ happened[k].processing \in {"miss", "raises"}
               => IsFailedResult(results[k])
         /\ happened[k].archiving = "raises"
               => \E w \in DOMAIN warnings : warnings[w] = files[k].name

\* C14 witness: the first file raised in processing and could not be
\* archived, the second was not recognised, the third was analysed; the run
\* is over with three results
C14_Witness ==
    /\ rpc = "done"
    /\ Len(files) = 3
    /\ Len(results) = 3
    /\ happened[1].processing = "raises" /\ happened[1].archiving = "raises"
    /\ happened[2].processing = "miss"
    /\ happened[3].processing = "analysed"
    /\ ~IsFailedResult(results[3])

\* ------------------------------------------------------------------------
\* Part 5: schema mapping (_normalize_string, _fuzzy_match, _map_columns of
\* the Veeam, Keepit and Entra analyzers, which share one text)
\* ------------------------------------------------------------------------
\* A character sequence may hold the precomposed letters "e_acute" and
\* "u_umlaut" (one character each); "acute" and "umlaut" are the combining
\* marks of their decomposition.
CombiningMarks == {"acute", "umlaut"}

\* unicodedata.normalize('NFD', c) of one character
Decompose(c) ==
    IF c = "e_acute" THEN <<"e", "acute">>
    ELSE IF c = "u_umlaut" THEN <<"u", "umlaut">>
    ELSE <<c>>

RECURSIVE Nfd(_)
Nfd(s) == IF s = <<>> THEN <<>> ELSE Decompose(Head(s)) \o Nfd(Tail(s))

\* ''.join(char for char in text if category(char) != 'Mn')
RemoveMarks(s) == SelectSeq(s, LAMBDA c : c \notin CombiningMarks)

\* _normalize_string: strip, lower, NFD, drop the combining marks
NormalizeString(text) == RemoveMarks(Nfd(Lower(Strip(text))))

\* difflib.SequenceMatcher.find_longest_match: the longest block a[i..] =
\* b[j..], the earliest in a among the longest, the earliest in b among
\* those
RECURSIVE RunLength(_, _, _, _)
RunLength(a, b, i, j) ==
    IF i > Len(a) \/ j > Len(b) THEN 0
    ELSE IF a[i] # b[j] THEN 0
    ELSE 1 + RunLength(a, b, i + 1, j + 1)

FindLongestMatch(a, b) ==
    LET starts == { p \in (1..Len(a)) \X (1..Len(b)) : a[p[1]] = b[p[2]] }
        Before(p, q) ==
            LET kp == RunLength(a, b, p[1], p[2])
                kq == RunLength(a, b, q[1], q[2])
            IN  \/ kp > kq
                \/ kp = kq /\ p[1] < q[1]
                \/ kp = kq /\ p[1] = q[1] /\ p[2] <= q[2]
    IN  IF starts = {} THEN <<0, 0, 0>>
        ELSE LET best == CHOOSE p \in starts : \A q \in starts : Before(p, q)
             IN  <<best[1], best[2], RunLength(a, b, best[1], best[2])>>

\* Sum of the sizes of get_matching_blocks: the longest block, then the
\* same to its left and to its right
RECURSIVE MatchingCharacters(_, _)
MatchingCharacters(a, b) ==
    LET m == FindLongestMatch(a, b)
    IN  IF m[3] = 0 THEN 0
        ELSE m[3]
             + MatchingCharacters(SubSeq(a, 1, m[1] - 1),
                                  SubSeq(b, 1, m[2] - 1))
             + MatchingCharacters(SubSeq(a, m[1] + m[3], Len(a)),
                                  SubSeq(b, m[2] + m[3], Len(b)))

\* SequenceMatcher(None, a, b).ratio() = 2.0 * matches / (len(a) + len(b)),
\* and 1.0 for two empty strings
Ratio(a, b) ==
    IF Len(a) + Len(b) = 0 THEN Frac(1, 1)
    ELSE Frac(2 * MatchingCharacters(a, b), Len(a) + Len(b))

\* A canonical field of field_mappings with its alternatives
Field(name, alternatives) == [name |-> name, alternatives |-> alternatives]

FieldStatus == Field(<<"s", "t", "a", "t", "u", "s">>, << <<"S", "t", "a", "t", "u", "s">>, <<"R", "e", "s", "u", "l", "t">> >>)
FieldJobState == Field(<<"j", "o", "b", "_", "s", "t", "a", "t", "e">>, << <<"S", "t", "a", "t", "e">>, <<"S", "t", "a", "t", "u", "s">> >>)
FieldVmName == Field(<<"v", "m", "_", "n", "a", "m", "e">>, << <<"V", "M", " ", "N", "a", "m", "e">> >>)
FieldStartTime == Field(<<"s", "t", "a", "r", "t", "_", "t", "i", "m", "e">>, << <<"s", "t", "a", "r", "t", " ", "t", "i", "m", "e">> >>)

\* A column of a table: its label, its dtype and its cells
Column(name, dtype, cells) == [name |-> name, dtype |-> dtype, cells |-> cells]

ColumnPool ==
    { Column(<<"V", "M", " ", "N", "a", "m", "e">>, "object", <<"srv1", "srv2">>),
      Column(<<" ", "S", "t", "a", "r", "t", " ", "T", "i", "m", "e", " ">>, "object", <<"01/05/2024 22:00", "n/a">>),
      Column(<<"S", "t", "a", "t", "u", "s">>, "object", <<"Success", "Failed">>),
      Column(<<"S", "t", "a", "t", "e">>, "object", <<"ok", "error">>),
      Column(<<"R", "e_acute", "s", "u", "l", "t", "a", "t">>, "object",
             <<"Erfolg", "Fehler">>) }

\* Every column name and alternative of the model; _date and _parsed_date
\* are the columns the Veeam analyzer adds before it maps
KnownNames ==
    { c.name : c \in ColumnPool } \cup { <<"_", "d", "a", "t", "e">>, <<"_", "p", "a", "r", "s", "e", "d", "_", "d", "a", "t", "e">> }
KnownAlternatives ==
    UNION { { f.alternatives[i] : i \in DOMAIN f.alternatives } :
            f \in {FieldStatus, FieldJobState, FieldVmName, FieldStartTime} }

\* The ratio of every normalized column name and normalized alternative
\* (@@ makes it an explicit table, worked out once)
Similarity ==
    [p \in KnownNames \X KnownAlternatives |->
        Ratio(NormalizeString(p[1]), NormalizeString(p[2]))] @@ <<>>

\* "similarity >= threshold", threshold in hundredths
AtLeast(similarity, threshold) ==
    FracLeq(Frac(threshold, 100), similarity)

\* _fuzzy_match
FuzzyMatch(text, alternatives, threshold) ==
    \E i \in DOMAIN alternatives :
        AtLeast(Similarity[<<text, alternatives[i]>>], threshold)

\* The field_mappings of an analyzer with its threshold
Mapper(fields, threshold) == [fields |-> fields, threshold |-> threshold]

Mappers ==
    { Mapper(<<FieldStatus, FieldJobState, FieldVmName, FieldStartTime>>, 85),
      Mapper(<<FieldJobState, FieldStatus>>, 85),
      Mapper(<<FieldStatus, FieldStartTime>>, 70) }

\* The tables of the model: columns with distinct labels
Tables ==
    { t \in SeqsUpTo(ColumnPool, MaxColumns) :
        \A i, j \in DOMAIN t : i # j => t[i].name # t[j].name }

\* "for field_name, field_config in self.field_mappings.items(): if
\* self._fuzzy_match(col, alternatives): ...; break": the position of the
\* field the column is mapped to, 0 if none
LastMatchingField(col, fields, threshold) ==
    LET hits == { i \in DOMAIN fields :
                    FuzzyMatch(col, fields[i].alternatives, threshold) }
    IN  IF hits = {} THEN 0 ELSE CHOOSE i \in hits : \A j \in hits : i >= j
FirstMatchingField(col, fields, threshold) ==
    LET hits == { i \in DOMAIN fields :
                    FuzzyMatch(col, fields[i].alternatives, threshold) }
    IN  IF hits = {} THEN 0 ELSE CHOOSE i \in hits : \A j \in hits : i <= j

\* column_mapping: the new label of every matched column label
ColumnMapping(t, fields, threshold) ==
    LET matched == { t[k].name : k \in { j \in DOMAIN t :
                       FirstMatchingField(t[j].name, fields, threshold) > 0 } }
    IN  [ n \in matched |->
            fields[FirstMatchingField(n, fields, threshold)].name ]

\* DataFrame.rename(columns=column_mapping): every label in the mapping is
\* replaced, everything else stays; equal labels may result
RenameKeepingLast(t, mapping) ==
    LET renamed == [k \in DOMAIN t |->
                      IF t[k].name \in DOMAIN mapping
                      THEN [t[k] EXCEPT !.name = mapping[t[k].name]]
                      ELSE t[k]]
        keep == { k \in DOMAIN t :
                    \A j \in DOMAIN t : j > k => renamed[j].name # renamed[k].name }
    IN  SelectSeq(renamed, LAMBDA c : \E k \in keep : renamed[k] = c)
Rename(t, mapping) ==
    [k \in DOMAIN t |->
        IF t[k].name \in DOMAIN mapping
        THEN [t[k] EXCEPT !.name = mapping[t[k].name]]
        ELSE t[k]]

\* _map_columns: a renamed copy of the table
MapColumns(t, fields, threshold) ==
    Rename(t, ColumnMapping(t, fields, threshold))

\* ---- the analyzers' run_checks and extract_fields -----------------------
Analyzers == {"veeam", "keepit", "entra"}

Rows(t) == IF t = <<>> THEN 0 ELSE Len(t[1].cells)

HasColumn(t, name) == \E k \in DOMAIN t : t[k].name = name

\* df[name] = values: the column of that label is replaced where it stands,
\* a new label is added at the end
SetColumn(t, name, dtype, cells) ==
    IF HasColumn(t, name)
    THEN [k \in DOMAIN t |->
            IF t[k].name = name THEN Column(name, dtype, cells) ELSE t[k]]
    ELSE Append(t, Column(name, dtype, cells))

\* A column computed from the table; its cells say how
Derived(t, how) == [i \in 1..Rows(t) |-> how]

\* The column search of VeeamBackupAnalyzer._analyze_per_vm
KindOfColumn(name) ==
    LET col_lower == Strip(Lower(name))
    IN  IF IsSubstring(<<"v", "m">>, col_lower) /\ IsSubstring(<<"n", "a", "m", "e">>, col_lower)
        THEN "vm"
        ELSE IF IsSubstring(<<"s", "t", "a", "r", "t">>, col_lower)
                /\ IsSubstring(<<"t", "i", "m", "e">>, col_lower)
        THEN "start_time"
        ELSE IF IsSubstring(<<"s", "t", "a", "t", "u", "s">>, col_lower) THEN "status"
        ELSE "other"

\* the last column of a kind, 0 if none
LastOfKind(t, kind) ==
    LET hits == { k \in DOMAIN t : KindOfColumn(t[k].name) = kind }
    IN  IF hits = {} THEN 0 ELSE CHOOSE k \in hits : \A j \in hits : k >= j

\* What _analyze_per_vm leaves of the table it is given: with the three
\* columns found it writes _date and _parsed_date into that table
AnalyzePerVm(t) ==
    LET vm_col == LastOfKind(t, "vm")
        start_time_col == LastOfKind(t, "start_time")
        status_col == LastOfKind(t, "status")
    IN  IF vm_col = 0 \/ start_time_col = 0 \/ status_col = 0 THEN t
        ELSE IF t[start_time_col].dtype = "datetime"
        THEN SetColumn(t, <<"_", "p", "a", "r", "s", "e", "d", "_", "d", "a", "t", "e">>, "datetime", t[start_time_col].cells)
        ELSE SetColumn(SetColumn(t, <<"_", "d", "a", "t", "e">>, "object",
                                 Derived(t, "extracted date")),
                       <<"_", "p", "a", "r", "s", "e", "d", "_", "d", "a", "t", "e">>, "datetime", Derived(t, "parsed date"))

\* "if 'status' in df.columns: df['status'] = df['status'].apply(...)"
VeeamNormalized(t) ==
    [k \in DOMAIN t |->
        IF t[k].name = <<"s", "t", "a", "t", "u", "s">>
        THEN Column(<<"s", "t", "a", "t", "u", "s">>, "object", Derived(t, "normalized status"))
        ELSE t[k]]

\* The working table of the Keepit analyzer
KeepitWorkingTable(t, always) ==
    LET s == IF HasColumn(t, <<"s", "t", "a", "t", "u", "s">>) \/ always
             THEN SetColumn(t, <<"_", "n", "o", "r", "m", "a", "l", "i", "z", "e", "d", "_", "s", "t", "a", "t", "u", "s">>, "object",
                            Derived(t, "normalized status"))
             ELSE t
    IN  IF HasColumn(s, <<"s", "t", "a", "r", "t", "_", "t", "i", "m", "e">>)
        THEN SetColumn(s, <<"_", "p", "a", "r", "s", "e", "d", "_", "d", "a", "t", "e">>, "datetime",
                       Derived(s, "parsed date"))
        ELSE s

\* The working table of the Entra analyzer
EntraWorkingTable(t) ==
    SetColumn(SetColumn(t, <<"_", "i", "n", "a", "c", "t", "i", "v", "e", "_", "d", "e", "v", "i", "c", "e">>, "bool",
                        Derived(t, "inactive")),
              <<"_", "r", "e", "c", "e", "n", "t", "_", "r", "e", "g", "i", "s", "t", "r", "a", "t", "i", "o", "n">>, "bool", Derived(t, "recent"))

InitTable ==
    /\ IdleScorer /\ IdleDetector /\ IdleClassify /\ IdleRun /\ IdleDates
    /\ IdleTimeline
    /\ IdleConfig
    /\ IdleAnalyze
    /\ table \in Tables
    /\ \E m \in Mappers :
         /\ field_mappings = m.fields
         /\ fuzzy_threshold = m.threshold
    /\ analyzer \in Analyzers
    /\ tpc = "start"
    /\ mapped_df = <<>>
    /\ df = <<>>
    /\ attrs = {}

\* analyzer._map_columns(table)
CallMapColumns ==
    /\ tpc = "start"
    /\ mapped_df' = MapColumns(table, field_mappings, fuzzy_threshold)
    /\ tpc' = "mapped"
    /\ UNCHANGED <<table, field_mappings, fuzzy_threshold, analyzer, df, attrs>>
    /\ UNCHANGED outsideTable

\* VeeamBackupAnalyzer.run_checks: the per-VM analysis is run on the table
\* it was given, then the table is mapped
VeeamRunChecks ==
    /\ analyzer = "veeam"
    /\ tpc \in {"start", "mapped"}
    /\ table' = AnalyzePerVm(table)
    /\ df' = VeeamNormalized(MapColumns(table', field_mappings,
                                        fuzzy_threshold))
    /\ attrs' = attrs \cup {"_vm_analysis_cache"}
    /\ tpc' = "checked"
    /\ UNCHANGED <<field_mappings, fuzzy_threshold, analyzer, mapped_df>>
    /\ UNCHANGED outsideTable

\* VeeamBackupAnalyzer.extract_fields: the per-VM analysis is run only
\* when run_checks has not left its result
VeeamExtractFields ==
    /\ analyzer = "veeam"
    /\ tpc \in {"start", "mapped", "checked"}
    /\ df' = VeeamNormalized(MapColumns(table, field_mappings,
                                        fuzzy_threshold))
    /\ table' = IF "_vm_analysis_cache" \in attrs THEN table
                ELSE AnalyzePerVm(table)
    /\ tpc' = "extracted"
    /\ UNCHANGED <<field_mappings, fuzzy_threshold, analyzer, mapped_df, attrs>>
    /\ UNCHANGED outsideTable

\* KeepitBackupAnalyzer.run_checks
KeepitRunChecks ==
    /\ analyzer = "keepit"
    /\ tpc \in {"start", "mapped"}
    /\ df' = KeepitWorkingTable(MapColumns(table, field_mappings,
                                           fuzzy_threshold), FALSE)
    /\ tpc' = "checked"
    /\ UNCHANGED <<table, field_mappings, fuzzy_threshold, analyzer,
                   mapped_df, attrs>>
    /\ UNCHANGED outsideTable

\* KeepitBackupAnalyzer.extract_fields
KeepitExtractFields ==
    /\ analyzer = "keepit"
    /\ tpc \in {"start", "mapped", "checked"}
    /\ df' = KeepitWorkingTable(MapColumns(table, field_mappings,
                                           fuzzy_threshold), TRUE)
    /\ tpc' = "extracted"
    /\ UNCHANGED <<table, field_mappings, fuzzy_threshold, analyzer,
                   mapped_df, attrs>>
    /\ UNCHANGED outsideTable

\* EntraDevicesAnalyzer.run_checks
EntraRunChecks ==
    /\ analyzer = "entra"
    /\ tpc \in {"start", "mapped"}
    /\ df' = EntraWorkingTable(MapColumns(table, field_mappings,
                                          fuzzy_threshold))
    /\ attrs' = attrs \cup {"_enriched_df"}
    /\ tpc' = "checked"
    /\ UNCHANGED <<table, field_mappings, fuzzy_threshold, analyzer, mapped_df>>
    /\ UNCHANGED outsideTable

\* EntraDevicesAnalyzer.extract_fields: the table of run_checks if there is
\* one
EntraExtractFields ==
    /\ analyzer = "entra"
    /\ tpc \in {"start", "mapped", "checked"}
    /\ df' = IF "_enriched_df" \in attrs THEN df
             ELSE EntraWorkingTable(MapColumns(table, field_mappings,
                                               fuzzy_threshold))
    /\ tpc' = "extracted"
    /\ UNCHANGED <<table, field_mappings, fuzzy_threshold, analyzer,
                   mapped_df, attrs>>
    /\ UNCHANGED outsideTable

NextTable ==
    \/ CallMapColumns
    \/ VeeamRunChecks
    \/ VeeamExtractFields
    \/ KeepitRunChecks
    \/ KeepitExtractFields
    \/ EntraRunChecks
    \/ EntraExtractFields

SpecTable == InitTable /\ [][NextTable]_vars

\* ---- properties of the schema mapping -----------------------------------
\* the fields one of whose alternatives is similar enough to a column label
CandidateFields(col) ==
    { i \in DOMAIN field_mappings :
        \E a \in DOMAIN field_mappings[i].alternatives :
            LET r == Similarity[<<col, field_mappings[i].alternatives[a]>>]
            IN  100 * r.num >= fuzzy_threshold * r.den }

\* the label the specification gives a column: the first candidate field in
\* configured order, its own label without a candidate
TargetLabel(col) ==
    IF CandidateFields(col) = {} THEN col
    ELSE field_mappings[CHOOSE i \in CandidateFields(col) :
                          \A j \in CandidateFields(col) : i <= j].name

\* C15: _map_columns renames every source column to the first canonical
\* field, in configured order, one of whose alternatives fuzzy-matches the
\* column label (similarity >= threshold); a column without such a field
\* keeps its label; a later field never overrides the first match.
C15_FirstFieldWins ==
    tpc = "mapped" =>
        \A k \in DOMAIN table :
            /\ k \in DOMAIN mapped_df
            /\ mapped_df[k].name = TargetLabel(table[k].name)

\* C15 witness: one column has two candidate fields and carries the name of
\* the first, which is not its own label; another column has none and keeps
\* its label
C15_Witness ==
    /\ tpc = "mapped"
    /\ \E k \in DOMAIN table :
          /\ Cardinality(CandidateFields(table[k].name)) >= 2
          /\ mapped_df[k].name = TargetLabel(table[k].name)
          /\ mapped_df[k].name # table[k].name
    /\ \E k \in DOMAIN table :
          /\ CandidateFields(table[k].name) = {}
          /\ mapped_df[k].name = table[k].name

\* the source columns that are given the label n
SourcesOf(n) == { k \in DOMAIN table : TargetLabel(table[k].name) = n }

\* C16 (as stated): when two source columns map to the same canonical name,
\* the mapped table keeps the later one: it has one column of that name,
\* which is the right-most of these source columns.
C16_CollisionKeepsLater ==
    tpc = "mapped" =>
        \A i \in DOMAIN field_mappings :
            LET n == field_mappings[i].name
                last == CHOOSE k \in SourcesOf(n) : \A j \in SourcesOf(n) : k >= j
                named == { k \in DOMAIN mapped_df : mapped_df[k].name = n }
            IN  Cardinality(SourcesOf(n)) >= 2 =>
                    /\ Cardinality(named) = 1
                    /\ \A k \in named : mapped_df[k].cells = table[last].cells

\* C17: _map_columns never drops a column: the mapped table has as many
\* columns as the source table, in the same order, with the same cells.
C17_NoColumnDropped ==
    tpc = "mapped" =>
        /\ Len(mapped_df) = Len(table)
        /\ \A k \in DOMAIN table :
              /\ mapped_df[k].cells = table[k].cells
              /\ mapped_df[k].dtype = table[k].dtype

\* C17 witness: three columns, two of which were given the same name, and
\* the mapped table still has the three of them
C17_Witness ==
    /\ tpc = "mapped"
    /\ Len(table) = 3
    /\ Len(mapped_df) = 3
    /\ \E j, k \in DOMAIN table :
          /\ j < k
          /\ mapped_df[j].name = mapped_df[k].name
          /\ mapped_df[j].cells # mapped_df[k].cells

\* C18 (as stated): run_checks and extract_fields of the three analyzers
\* leave the table they are given as it is; renaming and derived columns
\* happen in a copy.
C18_InputTableReadOnly == [][table' = table]_vars

\* ------------------------------------------------------------------------
\* Part 6: _detect_date_format of the Veeam, Keepit and Entra analyzers
\* ------------------------------------------------------------------------
\* A cell of the date column: null, or three numbers written with one
\* separator ("2024-03-05" is RawDate("-", 2024, 3, 5))
NullDate == [null |-> TRUE, sep |-> "", parts |-> <<0, 0, 0>>]
RawDate(sep, a, b, c) == [null |-> FALSE, sep |-> sep, parts |-> <<a, b, c>>]

DatePool ==
    { NullDate,
      RawDate("-", 2024, 3, 5), RawDate("-", 2024, 3, 12),
      RawDate("-", 2024, 3, 20), RawDate("-", 2024, 5, 3),
      RawDate("-", 2024, 7, 3), RawDate("-", 2024, 20, 3),
      RawDate("-", 5, 3, 2024), RawDate("-", 20, 3, 2024),
      RawDate("-", 3, 20, 2024), RawDate("/", 5, 3, 2024),
      RawDate("-", 99, 25, 3) }

FormatYMD == "yyyy-mm-dd"
FormatYDM == "yyyy-dd-mm"
FormatDMY == "dd-mm-yyyy"
FormatMDY == "mm-dd-yyyy"

\* the values of one position, and their maximum
Position(components, p) == { components[i][p] : i \in DOMAIN components }
MaxOf(S) == CHOOSE m \in S : \A x \in S : x <= m

\* Veeam: "parts = date_part.split('-')" with at least three parts that
\* int() accepts; other cells are passed over
VeeamComponents(dates) ==
    LET usable == SelectSeq(dates, LAMBDA d : ~d.null /\ d.sep = "-")
    IN  [i \in DOMAIN usable |-> usable[i].parts]

\* VeeamBackupAnalyzer._detect_date_format
VeeamYearThreshold == 1000
VeeamDetectDateFormat(dates) ==
    LET components == VeeamComponents(dates)
        pos0 == Position(components, 1)
        pos1 == Position(components, 2)
        pos2 == Position(components, 3)
    IN  IF components = <<>> THEN FormatYMD
        ELSE IF MaxOf(pos0) > VeeamYearThreshold
        THEN IF Cardinality(pos2) = 1 /\ \A m \in pos2 : 1 <= m /\ m <= 12
             THEN FormatYDM
             ELSE IF Cardinality(pos1) = 1
                     /\ \A m \in pos1 : 1 <= m /\ m <= 12
             THEN FormatYMD
             ELSE IF MaxOf(pos1) > 12 THEN FormatYDM
             ELSE IF MaxOf(pos2) > 12 THEN FormatYMD
             ELSE FormatYMD
        ELSE FormatYMD

\* Keepit and Entra: "dates.dropna().head(50)", then the pattern
\* (\d{1,4})[/\-\s\.](\d{1,2})[/\-\s\.](\d{1,4}) on each sample
SampleLimit == 50
SampledComponents(dates) ==
    LET present == SelectSeq(dates, LAMBDA d : ~d.null)
        sample == SubSeq(present, 1, Min(SampleLimit, Len(present)))
    IN  [i \in DOMAIN sample |-> sample[i].parts]

\* the decision both analyzers take on the components
SampledFormat(components) ==
    LET first_vals == Position(components, 1)
        second_vals == Position(components, 2)
        third_vals == Position(components, 3)
    IN  IF components = <<>> THEN FormatYMD
        ELSE IF \E v \in first_vals : v > 31
        THEN IF Cardinality(second_vals) = 1
                \/ \A v \in second_vals : v <= 12
             THEN IF \E v \in third_vals : v > 12 THEN FormatYMD
                  ELSE IF \E v \in second_vals : v > 12 THEN FormatYDM
                  ELSE FormatYMD
             ELSE FormatYDM
        ELSE IF \E v \in third_vals : v > 31
        THEN IF \E v \in first_vals : v > 12 THEN FormatDMY
             ELSE IF \E v \in second_vals : v > 12 THEN FormatMDY
             ELSE FormatDMY
        ELSE FormatYMD

\* KeepitBackupAnalyzer._detect_date_format
KeepitDetectDateFormat(dates) == SampledFormat(SampledComponents(dates))

\* EntraDevicesAnalyzer._detect_date_format
EntraDetectDateFormat(dates) == SampledFormat(SampledComponents(dates))

InitDates ==
    /\ IdleScorer /\ IdleDetector /\ IdleClassify /\ IdleRun /\ IdleTable
    /\ IdleTimeline
    /\ IdleConfig
    /\ IdleAnalyze
    /\ dates_series \in SeqsUpTo(DatePool, MaxDates)
    /\ detected = [a \in Analyzers |-> "none"]

VeeamDetects ==
    /\ detected # <<>>
    /\ detected["veeam"] = "none"
    /\ detected' = [detected EXCEPT !["veeam"] =
                        VeeamDetectDateFormat(dates_series)]
    /\ UNCHANGED dates_series
    /\ UNCHANGED outsideDates

KeepitDetects ==
    /\ detected # <<>>
    /\ detected["keepit"] = "none"
    /\ detected' = [detected EXCEPT !["keepit"] =
                        KeepitDetectDateFormat(dates_series)]
    /\ UNCHANGED dates_series
    /\ UNCHANGED outsideDates

EntraDetects ==
    /\ detected # <<>>
    /\ detected["entra"] = "none"
    /\ detected' = [detected EXCEPT !["entra"] =
                        EntraDetectDateFormat(dates_series)]
    /\ UNCHANGED dates_series
    /\ UNCHANGED outsideDates

NextDates ==
    \/ VeeamDetects
    \/ KeepitDetects
    \/ EntraDetects

SpecDates == InitDates /\ [][NextDates]_vars

\* ---- properties of the date-format inference ---------------------------
\* the three integer components of the samples: every cell that is not null
DateComponents ==
    LET present == SelectSeq(dates_series, LAMBDA d : ~d.null)
    IN  [i \in DOMAIN present |-> present[i].parts]

FirstValues == Position(DateComponents, 1)
SecondValues == Position(DateComponents, 2)
ThirdValues == Position(DateComponents, 3)

OneMonth(S) == Cardinality(S) = 1 /\ \A m \in S : 1 <= m /\ m <= 12

\* C19 (as stated): when the first component's maximum exceeds 31, every
\* analyzer's inference answers year-day-month if the third component has
\* exactly one distinct value within 1..12, otherwise year-month-day if the
\* second has exactly one distinct value within 1..12, otherwise
\* year-day-month if some second value exceeds 12 and year-month-day if
\* some third value exceeds 12.
C19_YearFirstInference ==
    \A a \in Analyzers :
        (/\ detected # <<>>
         /\ detected[a] # "none"
         /\ DateComponents # <<>>
         /\ MaxOf(FirstValues) > 31)
        => IF OneMonth(ThirdValues) THEN detected[a] = FormatYDM
           ELSE IF OneMonth(SecondValues) THEN detected[a] = FormatYMD
           ELSE IF \E v \in SecondValues : v > 12
           THEN detected[a] = FormatYDM
           ELSE IF \E v \in ThirdValues : v > 12
           THEN detected[a] = FormatYMD
           ELSE TRUE

\* C20 (as stated): when the first component never exceeds 31 and the third
\* component's maximum does, every analyzer's inference takes the third
\* slot for the year: day-month-year when some first value exceeds 12,
\* month-day-year when some second value exceeds 12.
C20_YearLastInference ==
    \A a \in Analyzers :
        (/\ detected # <<>>
         /\ detected[a] # "none"
         /\ DateComponents # <<>>
         /\ MaxOf(FirstValues) <= 31
         /\ MaxOf(ThirdValues) > 31)
        => IF \E v \in FirstValues : v > 12 THEN detected[a] = FormatDMY
           ELSE IF \E v \in SecondValues : v > 12
           THEN detected[a] = FormatMDY
           ELSE TRUE

\* ------------------------------------------------------------------------
\* Archiving in run: the month a file is archived under
\* ------------------------------------------------------------------------
\* the month file k of the batch would be archived under on its own account:
\* the month of its own result, or none (the current month is then used)
\* when its processing raised and left it no analysis result
OwnMonths(k) ==
    {results[k].month} \cup
        (IF happened[k].processing = "raises" THEN {"none"} ELSE {})

\* C30: in a run over several files with archiving enabled, every archived
\* file was archived under the report month derived from its own analysis
\* result, or under the current month when it has none; the result of a file
\* processed earlier never chooses the directory of a later file, also when
\* processing the later file raised.
C30_ArchivedUnderOwnMonth ==
    \A a \in DOMAIN archived :
        \A k \in 1..Processed :
            files[k].name = archived[a].file
                => archived[a].month \in OwnMonths(k)

\* ------------------------------------------------------------------------
\* Part 7: the per-VM timeline of the Veeam analyzer (_analyze_per_vm, the
\* missing_backups check of run_checks, the vm_analysis and
\* missing_backup_days fields of extract_fields, _get_missing_backup_days)
\* and the report month of the Keepit analyzer (_determine_report_month).
\* The Start Time column is of datetime type, as the Excel parser delivers
\* it; a cell that is not a date is NaT.
\* ------------------------------------------------------------------------
Date(y, m, d) == [y |-> y, m |-> m, d |-> d]
NaT == [y |-> 0, m |-> 0, d |-> 0]

\* calendar arithmetic of pandas: Period.days_in_month, date + 1 day
IsLeapYear(y) == (y % 4 = 0 /\ y % 100 # 0) \/ y % 400 = 0
DaysInMonth(y, m) ==
    IF m = 2 THEN (IF IsLeapYear(y) THEN 29 ELSE 28)
    ELSE IF m \in {4, 6, 9, 11} THEN 30 ELSE 31
NextDay(dt) ==
    IF dt.d < DaysInMonth(dt.y, dt.m) THEN Date(dt.y, dt.m, dt.d + 1)
    ELSE IF dt.m < 12 THEN Date(dt.y, dt.m + 1, 1)
    ELSE Date(dt.y + 1, 1, 1)
IsDate(y, m, d) ==
    /\ 1 <= m /\ m <= 12
    /\ 1 <= d /\ d <= DaysInMonth(y, m)

\* order of dates, and of (year, month) periods
DateBefore(a, b) ==
    \/ a.y < b.y
    \/ a.y = b.y /\ a.m < b.m
    \/ a.y = b.y /\ a.m = b.m /\ a.d < b.d
MonthBefore(a, b) == a[1] < b[1] \/ (a[1] = b[1] /\ a[2] < b[2])
MonthOf(dt) == <<dt.y, dt.m>>

\* sorted(...) of a set of dates
RECURSIVE SortedDates(_)
SortedDates(S) ==
    IF S = {} THEN <<>>
    ELSE LET first == CHOOSE a \in S : \A b \in S : a = b \/ DateBefore(a, b)
         IN  <<first>> \o SortedDates(S \ {first})

\* pd.date_range(start=first of the month, periods=days_in_month)
AllDays(month) ==
    { Date(month[1], month[2], d) : d \in 1..DaysInMonth(month[1], month[2]) }

\* One row of the table: VM Name, Start Time, Status
EventRow(vm_name, start_time, status) ==
    [vm_name |-> vm_name, start_time |-> start_time, status |-> status]

EventRows ==
    { EventRow("vm-a", Date(2024, 2, 28), "Success"),
      EventRow("vm-a", Date(2024, 2, 28), "Failed"),
      EventRow("vm-a", Date(2024, 3, 1), "Success"),
      EventRow("vm-b", Date(2024, 2, 27), "Success"),
      EventRow("vm-b", Date(2023, 2, 27), "Failed"),
      EventRow("vm-b", Date(2024, 4, 30), "Success"),
      EventRow("vm-a", NaT, "Success") }

EventTables == { t \in SeqsUpTo(EventRows, MaxEvents) : t # <<>> }

\* a table of another file, as a long-lived analyzer instance may be handed
OtherTables ==
    { <<EventRow("vm-b", Date(2024, 4, 30), "Failed")>>,
      <<EventRow("vm-a", NaT, "Success")>> }

\* "valid_df": rows with a date and a VM name
ValidRows(t) ==
    SelectSeq(t, LAMBDA r : r.start_time # NaT /\ r.vm_name # "")

\* value_counts of the months of a list of dates
MonthsOf(dates) == { MonthOf(dates[i]) : i \in DOMAIN dates }
MonthCount(dates, month) ==
    Cardinality({ i \in DOMAIN dates : MonthOf(dates[i]) = month })
MostFrequentMonths(dates) ==
    { month \in MonthsOf(dates) :
        \A other \in MonthsOf(dates) :
            MonthCount(dates, other) <= MonthCount(dates, month) }

\* Series.mode()[0]: the modes come sorted, so the lowest of them
ModeMonth(dates) ==
    CHOOSE month \in MostFrequentMonths(dates) :
        \A other \in MostFrequentMonths(dates) :
            other = month \/ MonthBefore(month, other)

\* value_counts().idxmax() and value_counts().index[0]: value_counts orders
\* by count alone, and which of several months of equal count comes first
\* is left to the sort, so any of them can
FirstOfValueCounts(dates) == MostFrequentMonths(dates)

DatesOf(rows) == [i \in DOMAIN rows |-> rows[i].start_time]

\* the rows of one VM, and the number of rows of one status
RowsOfVm(rows, vm_name) == SelectSeq(rows, LAMBDA r : r.vm_name = vm_name)
StatusCount(rows, status) ==
    Cardinality({ i \in DOMAIN rows : rows[i].status = status })

\* "next_day_status[0]": the status of the first row of that day
FirstStatusOn(vm_df, day) ==
    LET i == CHOOSE i \in DOMAIN vm_df :
                 /\ vm_df[i].start_time = day
                 /\ \A j \in DOMAIN vm_df :
                        vm_df[j].start_time = day => i <= j
    IN  vm_df[i].status

\* "if next_day in vm_backup_dates: ... if len(next_day_status) > 0 and
\* next_day_status[0] == 'Success'"
RecoveredNextDay(vm_df, vm_backup_dates, missing_day) ==
    /\ NextDay(missing_day) \in vm_backup_dates
    /\ FirstStatusOn(vm_df, NextDay(missing_day)) = "Success"

\* "actual_missing = len(missing_days) - recoverable_missing"
ActualMissingIgnoringRecovery(missing_days, recoverable_missing) ==
    Cardinality(missing_days)
ActualMissing(missing_days, recoverable_missing) ==
    Cardinality(missing_days) - recoverable_missing

\* the body of the loop over the VMs of the report month
AnalyzeVm(vm_df, report_month) ==
    LET vm_backup_dates == { vm_df[i].start_time : i \in DOMAIN vm_df }
        missing_days == AllDays(report_month) \ vm_backup_dates
        recoverable_missing ==
            Cardinality({ d \in missing_days :
                            RecoveredNextDay(vm_df, vm_backup_dates, d) })
    IN  [total_backups |-> Len(vm_df),
         successful_backups |-> StatusCount(vm_df, "Success"),
         failed_backups |-> StatusCount(vm_df, "Failed"),
         missing_days_total |-> Cardinality(missing_days),
         missing_days_recoverable |-> recoverable_missing,
         missing_days_critical |->
             ActualMissing(missing_days, recoverable_missing),
         missing_days_list |-> SortedDates(missing_days),
         backup_dates |-> SortedDates(vm_backup_dates)]

\* VeeamBackupAnalyzer._analyze_per_vm, from the valid rows on: {} when no
\* row is valid, else the report month and one entry per VM of that month
EmptyAnalysis == [kind |-> "empty"]
VmAnalysis(t) ==
    LET valid_df == ValidRows(t)
    IN  IF valid_df = <<>> THEN EmptyAnalysis
        ELSE LET report_month == ModeMonth(DatesOf(valid_df))
                 month_df == SelectSeq(valid_df,
                     LAMBDA r : MonthOf(r.start_time) = report_month)
                 names == { month_df[i].vm_name : i \in DOMAIN month_df }
             IN  [kind |-> "vms",
                  report_month |-> report_month,
                  vms |-> [vm_name \in names |->
                             AnalyzeVm(RowsOfVm(month_df, vm_name),
                                       report_month)]]

\* "missing_days_list[recoverable:] if recoverable < len(missing_days_list)
\* else missing_days_list"
CriticalMissing(vm_data) ==
    LET missing_days_list == vm_data.missing_days_list
        recoverable == vm_data.missing_days_recoverable
    IN  IF recoverable < Len(missing_days_list)
        THEN SubSeq(missing_days_list, recoverable + 1,
                    Len(missing_days_list))
        ELSE missing_days_list

\* the loop over the VMs that run_checks and extract_fields both run on the
\* analysis: the listed dates of every VM with a critical count above zero
AllCriticalMissing(analysis) ==
    LET listed(vm_name) ==
            IF analysis.vms[vm_name].missing_days_critical > 0
            THEN { CriticalMissing(analysis.vms[vm_name])[i] :
                     i \in DOMAIN CriticalMissing(analysis.vms[vm_name]) }
            ELSE {}
    IN  SortedDates(UNION { listed(vm_name) :
                              vm_name \in DOMAIN analysis.vms })

\* VeeamBackupAnalyzer._get_missing_backup_days, the older routine that
\* extract_fields falls back on.  str() of a Start Time is
\* "yyyy-mm-dd hh:mm:ss", which _detect_date_format splits at the dashes.
TimestampCell(start_time) ==
    IF start_time = NaT THEN NullDate
    ELSE RawDate("-", start_time.y, start_time.m, start_time.d)
TimestampCells(t) == [i \in DOMAIN t |-> TimestampCell(t[i].start_time)]

\* the yyyy-dd-mm branch: "year = int(parts[0]); day = int(parts[1]);
\* month = int(parts[2])", cells that give no date are passed over
RECURSIVE ParsedDayMonthSwapped(_)
ParsedDayMonthSwapped(t) ==
    IF t = <<>> THEN <<>>
    ELSE LET c == Head(t).start_time
             rest == ParsedDayMonthSwapped(Tail(t))
         IN  IF c # NaT /\ IsDate(c.y, c.d, c.m)
             THEN <<Date(c.y, c.d, c.m)>> \o rest
             ELSE rest

\* "work_df['_parsed_date'] = dates": the dates meet the rows by index.  On
\* the yyyy-dd-mm branch dates is a new series, numbered from 0 and holding
\* midnights; on the other branch it keeps the rows' own index and their
\* time of day (every Start Time of EventRows is in the evening of its day).
WorkRow(vm_name, parsed_date, midnight) ==
    [vm_name |-> vm_name, parsed_date |-> parsed_date, midnight |-> midnight]
WorkTable(t, detected_format) ==
    IF detected_format = FormatYDM
    THEN LET dates == ParsedDayMonthSwapped(t)
         IN  [i \in DOMAIN t |->
                WorkRow(t[i].vm_name,
                        IF i <= Len(dates) THEN dates[i] ELSE NaT, TRUE)]
    ELSE [i \in DOMAIN t |-> WorkRow(t[i].vm_name, t[i].start_time, FALSE)]
FallbackDates(t, detected_format) ==
    IF detected_format = FormatYDM THEN ParsedDayMonthSwapped(t)
    ELSE DatesOf(SelectSeq(t, LAMBDA r : r.start_time # NaT))

\* "(work_df['_parsed_date'] >= month_start) & (work_df['_parsed_date'] <=
\* month_end)", month_end being the midnight that begins the last day
InTargetMonth(w, target) ==
    /\ w.parsed_date # NaT
    /\ MonthOf(w.parsed_date) = target
    /\ \/ w.midnight
       \/ w.parsed_date.d < DaysInMonth(target[1], target[2])

\* the days of the target month on which some VM of that month has no row
MissingForAnyVm(work_df, target) ==
    LET target_month_df ==
            SelectSeq(work_df, LAMBDA w : InTargetMonth(w, target))
        unique_vms ==
            { target_month_df[i].vm_name : i \in DOMAIN target_month_df }
        vm_backup_days(vm) ==
            { target_month_df[i].parsed_date :
                i \in { j \in DOMAIN target_month_df :
                          target_month_df[j].vm_name = vm } }
    IN  SortedDates(UNION { AllDays(target) \ vm_backup_days(vm) :
                              vm \in unique_vms })

\* the answers _get_missing_backup_days can give: one for each month that
\* value_counts().idxmax() can name
GetMissingBackupDays(t) ==
    LET detected_format == VeeamDetectDateFormat(TimestampCells(t))
        dates == FallbackDates(t, detected_format)
    IN  IF dates = <<>> THEN { [target |-> <<0, 0>>, days |-> <<>>] }
        ELSE { [target |-> target,
                days |-> MissingForAnyVm(WorkTable(t, detected_format),
                                         target)] :
                 target \in FirstOfValueCounts(dates) }

\* KeeepitBackupAnalyzer._determine_report_month on a table whose dates are
\* parsed: value_counts().index[0], or the current month when no date is
CurrentMonth == <<2026, 11>>
DetermineReportMonth(t) ==
    LET dates == DatesOf(SelectSeq(t, LAMBDA r : r.start_time # NaT))
    IN  IF dates = <<>> THEN {CurrentMonth}
        ELSE FirstOfValueCounts(dates)

\* _analyze_per_vm and _get_missing_backup_days of every table a call can be
\* handed, tabulated once
AnalyzePerVmOf ==
    [t \in EventTables \cup OtherTables |-> VmAnalysis(t)] @@ <<>>
GetMissingBackupDaysOf ==
    [t \in EventTables \cup OtherTables |-> GetMissingBackupDays(t)] @@ <<>>

\* what a call on the analyzer hands back, as far as the timeline goes
TimelineReturn(call, vm_analysis, missing_days, month) ==
    [call |-> call, vm_analysis |-> vm_analysis,
     missing_days |-> missing_days, month |-> month]

InitTimeline ==
    /\ IdleScorer /\ IdleDetector /\ IdleClassify /\ IdleRun /\ IdleTable
    /\ IdleDates
    /\ IdleConfig
    /\ IdleAnalyze
    /\ vm_table \in EventTables
    /\ vm_arg = <<>>
    /\ vm_calls = <<>>
    /\ vm_analysis_cache = [kind |-> "unset"]
    /\ vm_returned = [call |-> "none"]

\* the tables a call can be handed: the one at hand, or another file's
Arguments == {vm_table} \cup OtherTables

\* VeeamBackupAnalyzer.run_checks: the analysis is stored on the instance,
\* and the missing_backups check lists the critical days of every VM
RunChecksOn(t) ==
    /\ Len(vm_calls) < MaxCalls
    /\ vm_arg' = t
    /\ vm_calls' = Append(vm_calls, "run_checks")
    /\ vm_analysis_cache' = AnalyzePerVmOf[t]
    /\ vm_returned' =
         TimelineReturn("run_checks", AnalyzePerVmOf[t],
                  IF AnalyzePerVmOf[t].kind = "vms"
                  THEN AllCriticalMissing(AnalyzePerVmOf[t]) ELSE <<>>,
                  IF AnalyzePerVmOf[t].kind = "vms"
                  THEN AnalyzePerVmOf[t].report_month ELSE <<0, 0>>)
    /\ UNCHANGED vm_table
    /\ UNCHANGED outsideTimeline

\* VeeamBackupAnalyzer.extract_fields: the stored analysis when there is
\* one, else a new one of the table given (which is not stored); the listed
\* days from it, or from _get_missing_backup_days when it names no VM
ExtractFieldsOn(t) ==
    /\ Len(vm_calls) < MaxCalls
    /\ vm_arg' = t
    /\ vm_calls' = Append(vm_calls, "extract_fields")
    /\ LET vm_analysis == IF vm_analysis_cache.kind # "unset"
                          THEN vm_analysis_cache ELSE AnalyzePerVmOf[t]
       IN  IF vm_analysis.kind = "vms"
           THEN vm_returned' =
                    TimelineReturn("extract_fields", vm_analysis,
                             AllCriticalMissing(vm_analysis),
                             vm_analysis.report_month)
           ELSE \E answer \in GetMissingBackupDaysOf[t] :
                    vm_returned' =
                        TimelineReturn("extract_fields", vm_analysis,
                                 answer.days, answer.target)
    /\ UNCHANGED <<vm_table, vm_analysis_cache>>
    /\ UNCHANGED outsideTimeline

VeeamRunChecksTimeline == \E t \in Arguments : RunChecksOn(t)
VeeamExtractFieldsTimeline == \E t \in Arguments : ExtractFieldsOn(t)

\* KeeepitBackupAnalyzer._determine_report_month on the table at hand
KeepitDeterminesReportMonth ==
    /\ Len(vm_calls) < MaxCalls
    /\ vm_arg' = vm_table
    /\ vm_calls' = Append(vm_calls, "determine_report_month")
    /\ \E month \in DetermineReportMonth(vm_table) :
         vm_returned' = TimelineReturn("determine_report_month", EmptyAnalysis,
                                 <<>>, month)
    /\ UNCHANGED <<vm_table, vm_analysis_cache>>
    /\ UNCHANGED outsideTimeline

NextTimeline ==
    \/ VeeamRunChecksTimeline
    \/ VeeamExtractFieldsTimeline
    \/ KeepitDeterminesReportMonth

SpecTimeline == InitTimeline /\ [][NextTimeline]_vars

\* ------------------------------------------------------------------------
\* Properties of the timeline
\* ------------------------------------------------------------------------
\* the latest call computed its per-VM analysis from the table it was given
FreshAnalysis ==
    /\ vm_returned.call \in {"run_checks", "extract_fields"}
    /\ vm_returned.vm_analysis.kind = "vms"
    /\ vm_returned.call = "extract_fields"
          => vm_analysis_cache.kind = "unset"

\* the dated rows of one VM in the table given, whatever their month
EventsOf(vm_name) ==
    SelectSeq(vm_arg, LAMBDA r : r.vm_name = vm_name /\ r.start_time # NaT)
EventDatesOf(vm_name) ==
    { EventsOf(vm_name)[i].start_time : i \in DOMAIN EventsOf(vm_name) }

\* the days of the reported month on which the VM has no event
MissingDatesOf(vm_name) ==
    AllDays(vm_returned.vm_analysis.report_month) \ EventDatesOf(vm_name)

\* the VM has a successful event on the day
SuccessOn(vm_name, day) ==
    \E i \in DOMAIN EventsOf(vm_name) :
        /\ EventsOf(vm_name)[i].start_time = day
        /\ EventsOf(vm_name)[i].status = "Success"

\* C21: in the per-VM analysis a missing date d of a VM is counted
\* recoverable exactly when d+1 is one of the VM's event dates and the VM
\* has a successful event on d+1 (any event of that day, also when d is the
\* last day of the month); every other missing date is counted critical.
C21_RecoverableIffNextDaySuccess ==
    FreshAnalysis =>
        \A vm_name \in DOMAIN vm_returned.vm_analysis.vms :
            LET counted == vm_returned.vm_analysis.vms[vm_name]
                recoverable ==
                    { d \in MissingDatesOf(vm_name) :
                        /\ NextDay(d) \in EventDatesOf(vm_name)
                        /\ SuccessOn(vm_name, NextDay(d)) }
            IN  /\ counted.missing_days_recoverable =
                       Cardinality(recoverable)
                /\ counted.missing_days_critical =
                       Cardinality(MissingDatesOf(vm_name) \ recoverable)

\* the number of days of a calendar month
CalendarDays(year, month) ==
    CASE month \in {1, 3, 5, 7, 8, 10, 12} -> 31
      [] month \in {4, 6, 9, 11} -> 30
      [] month = 2 /\ year % 4 = 0 /\ (year % 100 # 0 \/ year % 400 = 0)
            -> 29
      [] OTHER -> 28

\* the analyses in sight: the stored one and the one just returned
AnalysesInSight ==
    { a \in {vm_analysis_cache} \cup
            (IF vm_returned.call \in {"run_checks", "extract_fields"}
             THEN {vm_returned.vm_analysis} ELSE {}) :
        a.kind = "vms" }

\* C22: for every VM of every per-VM analysis, missing_days_total is the sum
\* of missing_days_recoverable and missing_days_critical, none of the three
\* is negative, and missing_days_total is the number of calendar days of the
\* report month (28, 29, 30 or 31) less the number of distinct event dates
\* of the VM inside that month.
C22_MissingDayConservation ==
    /\ \A a \in AnalysesInSight :
         \A vm_name \in DOMAIN a.vms :
             /\ a.vms[vm_name].missing_days_total =
                    a.vms[vm_name].missing_days_recoverable
                    + a.vms[vm_name].missing_days_critical
             /\ a.vms[vm_name].missing_days_total >= 0
             /\ a.vms[vm_name].missing_days_recoverable >= 0
             /\ a.vms[vm_name].missing_days_critical >= 0
    /\ FreshAnalysis =>
         LET a == vm_returned.vm_analysis
         IN  \A vm_name \in DOMAIN a.vms :
                 a.vms[vm_name].missing_days_total =
                     CalendarDays(a.report_month[1], a.report_month[2])
                     - Cardinality({ d \in EventDatesOf(vm_name) :
                                       MonthOf(d) = a.report_month })

\* C22 witness: run_checks on a table of February 2024 in which vm-a has one
\* day with a successful backup: 28 of the 29 days are missing, the day
\* before the backup is recoverable and the other 27 are critical
C22_Witness ==
    /\ vm_returned.call = "run_checks"
    /\ vm_returned.vm_analysis.kind = "vms"
    /\ vm_returned.vm_analysis.report_month = <<2024, 2>>
    /\ "vm-a" \in DOMAIN vm_returned.vm_analysis.vms
    /\ vm_returned.vm_analysis.vms["vm-a"].missing_days_total = 28
    /\ vm_returned.vm_analysis.vms["vm-a"].missing_days_recoverable = 1
    /\ vm_returned.vm_analysis.vms["vm-a"].missing_days_critical = 27

\* the dates of the table given, and the month that holds most of them, the
\* lowest (year, month) among several that hold equally many
TableDates == DatesOf(SelectSeq(vm_arg, LAMBDA r : r.start_time # NaT))
LowestMostFrequentMonth ==
    CHOOSE month \in MostFrequentMonths(TableDates) :
        \A other \in MostFrequentMonths(TableDates) :
            ~MonthBefore(other, month)

\* the latest call determined a report month from the table it was given
DeterminedMonth ==
    /\ TableDates # <<>>
    /\ \/ vm_returned.call = "determine_report_month"
       \/ FreshAnalysis
       \/ /\ vm_returned.call = "extract_fields"
          /\ vm_returned.vm_analysis.kind = "empty"

\* C23: every routine that determines the report month names the calendar
\* month that holds the most event dates of the whole table, and the lowest
\* (year, month) when several months hold equally many.
C23_LowestMostFrequentMonth ==
    DeterminedMonth => vm_returned.month = LowestMostFrequentMonth

\* C24: the per-VM analysis that extract_fields(t) reports is the one
\* derived from t, whatever was called on the analyzer instance before.
C24_AnalysisOfGivenTable ==
    vm_returned.call = "extract_fields"
        => vm_returned.vm_analysis = VmAnalysis(vm_arg)

\* the dates of a VM that the analysis classifies as critical: missing in
\* the report month and not recovered on the next day
CriticalDatesOf(vm_name) ==
    LET month == vm_returned.vm_analysis.report_month
        vm_df == SelectSeq(EventsOf(vm_name),
                           LAMBDA r : MonthOf(r.start_time) = month)
        vm_backup_dates == { vm_df[i].start_time : i \in DOMAIN vm_df }
    IN  { d \in AllDays(month) \ vm_backup_dates :
            ~RecoveredNextDay(vm_df, vm_backup_dates, d) }

\* C27: the days listed by the missing_backups check and by the
\* missing_backup_days field are exactly the critical missing dates of all
\* VMs together: no recoverable date of a VM is listed on its account and no
\* critical date is left out.
C27_ListedDaysAreTheCriticalOnes ==
    FreshAnalysis =>
        { vm_returned.missing_days[i] : i \in DOMAIN vm_returned.missing_days }
            = UNION { CriticalDatesOf(vm_name) :
                        vm_name \in DOMAIN vm_returned.vm_analysis.vms }

\* ------------------------------------------------------------------------
\* Part 8: loading and reloading of the configuration (ConfigLoader,
\* ReportAnalysisTool.__init__, ReportDetector.__init__ and reload_configs)
\* and the scorer an analysis is given (BaseAnalyzer.__init__,
\* ReportAnalyzer._algorithmic_analysis)
\* ------------------------------------------------------------------------
\* the analysis.scoring section of a report-type file
NoSection == [present |-> FALSE]
Scoring(has_base, base_score, deductions, risk_levels) ==
    [present |-> TRUE, has_base |-> has_base, base_score |-> base_score,
     deductions |-> deductions, risk_levels |-> risk_levels]

\* What yaml.safe_load makes of a report-type file, as far as loading and
\* scoring look at it.  id and name are "" when the key is absent.
ConfigFile(stem, yaml_ok, has_report_type, enabled, id, name,
           identification, scoring) ==
    [stem |-> stem, yaml_ok |-> yaml_ok, has_report_type |-> has_report_type,
     enabled |-> enabled, id |-> id, name |-> name,
     identification |-> identification, analysis_scoring |-> scoring,
     scoring |-> NoSection]

ConfigFilePool ==
    { ConfigFile("veeam", TRUE, TRUE, TRUE, "veeam_backup", "Veeam Backup",
                 "methods", Scoring(TRUE, 800, <<ScenarioRule>>, <<>>)),
      ConfigFile("custom", TRUE, TRUE, TRUE, "custom_report", "Custom",
                 "methods", Scoring(TRUE, 900, <<>>, <<>>)),
      ConfigFile("broken", FALSE, FALSE, TRUE, "", "", "missing", NoSection),
      ConfigFile("no_report_type", TRUE, FALSE, TRUE, "", "", "methods",
                 NoSection),
      ConfigFile("no_name", TRUE, TRUE, TRUE, "keepit_backup", "",
                 "methods", NoSection),
      ConfigFile("no_identification", TRUE, TRUE, TRUE, "entra_devices",
                 "Entra Devices", "missing", NoSection),
      ConfigFile("bad_score", TRUE, TRUE, TRUE, "keepit_backup",
                 "Keepit Backup", "methods",
                 Scoring(TRUE, 1500, <<>>, <<>>)) }

\* the directory, in glob order
ConfigFileDirs ==
    { s \in SeqsUpTo(ConfigFilePool, MaxConfigs) :
        \A i, j \in DOMAIN s : i # j => s[i].stem # s[j].stem }

\* what the directory can hold after somebody has edited it
EditedDirs ==
    { <<ConfigFile("veeam", TRUE, TRUE, TRUE, "veeam_backup", "Veeam Backup",
                   "methods", Scoring(TRUE, 1000, <<>>, <<>>))>>,
      <<ConfigFile("custom", TRUE, TRUE, TRUE, "custom_report", "Custom",
                   "methods", Scoring(TRUE, 900, <<>>, <<>>)),
        ConfigFile("broken", FALSE, FALSE, TRUE, "", "", "missing",
                   NoSection)>> }

\* ConfigLoader._validate_report_config: the error it raises, or "" 
ValidateReportConfig(config) ==
    IF ~config.has_report_type THEN "Missing 'report_type' section"
    ELSE IF config.id = "" THEN "Report ID not specified"
    ELSE IF config.name = "" THEN "Report name not specified"
    ELSE IF config.identification = "missing"
    THEN "Missing 'identification' section"
    ELSE IF config.identification = "no_methods"
    THEN "No identification methods configured"
    ELSE IF config.analysis_scoring.present
            /\ ~config.analysis_scoring.has_base
    THEN "Base score not specified in scoring configuration"
    ELSE IF config.analysis_scoring.present
            /\ (config.analysis_scoring.base_score < 0
                \/ config.analysis_scoring.base_score > 1000)
    THEN "Base score must be between 0 and 100"
    ELSE ""

\* one pass of the loop of load_all_report_configs: what becomes of a file
\* ("loaded", "disabled", or "failed" when anything in the try block raises)
LoadOutcome(config) ==
    IF ~config.yaml_ok THEN "failed"
    ELSE IF config.has_report_type /\ ~config.enabled THEN "disabled"
    ELSE IF ~config.has_report_type \/ config.id = "" THEN "failed"
    ELSE IF ValidateReportConfig(config) # "" THEN "failed"
    ELSE "loaded"

\* a configuration object: what it holds and the load that created it
ConfigObject(content, load) == [content |-> content, load |-> load]

\* "reports[report_id] = config": a new key goes to the end of the
\* dictionary, a known key keeps its place and gets the new object
DictPut(reports, id, obj) ==
    IF \E k \in DOMAIN reports : reports[k].id = id
    THEN [k \in DOMAIN reports |->
            IF reports[k].id = id THEN [id |-> id, obj |-> obj]
            ELSE reports[k]]
    ELSE Append(reports, [id |-> id, obj |-> obj])

\* "self.config_cache[report_id] = config"
CachePut(cache, key, obj) ==
    { e \in cache : e.key # key } \cup { [key |-> key, obj |-> obj] }

\* ConfigLoader.load_all_report_configs: every file is parsed anew, so each
\* loaded configuration is a new object; a file that fails is logged and
\* passed over
RECURSIVE LoadFrom(_, _, _, _)
LoadFrom(dir, i, load, acc) ==
    IF i > Len(dir) THEN acc
    ELSE LET config == dir[i]
             obj == Len(acc.objects) + 1
         IN  CASE LoadOutcome(config) = "loaded" ->
                    LoadFrom(dir, i + 1, load,
                        [objects |->
                            Append(acc.objects, ConfigObject(config, load)),
                         reports |-> DictPut(acc.reports, config.id, obj),
                         cache |-> CachePut(acc.cache, config.id, obj),
                         errors |-> acc.errors])
               [] LoadOutcome(config) = "failed" ->
                    LoadFrom(dir, i + 1, load,
                        [acc EXCEPT !.errors = @ \cup {config.stem}])
               [] OTHER -> LoadFrom(dir, i + 1, load, acc)

LoadAllReportFiles(dir, objs, cache, load) ==
    LoadFrom(dir, 1, load,
             [objects |-> objs, reports |-> <<>>, cache |-> cache,
              errors |-> {}])

\* "self.report_configs = self.config_loader.load_all_report_configs()"
MergeIntoOldMapping(old, loaded) ==
    loaded \o SelectSeq(old, LAMBDA e :
                  \A k \in DOMAIN loaded : loaded[k].id # e.id)
ReplaceMapping(old, loaded) == loaded

\* RiskScorer(scoring_config) of a scoring section, or of {} when the
\* section is not there: base score 100, no deductions, default risk bands
RiskScorerOf(scoring) ==
    IF scoring.present /\ scoring.has_base
    THEN NewScorer(scoring.base_score, scoring.deductions,
                   scoring.risk_levels)
    ELSE IF scoring.present
    THEN NewScorer(1000, scoring.deductions, scoring.risk_levels)
    ELSE NewScorer(1000, <<>>, <<>>)

\* ReportAnalyzer.analyzers: the report types with an analyzer of their own
SpecificAnalyzers == {"veeam_backup", "keepit_backup", "entra_devices"}

\* BaseAnalyzer.__init__ is handed the whole report configuration and reads
\* its top-level key scoring
AnalyzerScorer(config) == RiskScorerOf(config.scoring)

\* the generic path reads the key scoring of the analysis section
GenericScorer(config) == RiskScorerOf(config.analysis_scoring)

InitConfig ==
    /\ IdleScorer /\ IdleDetector /\ IdleClassify /\ IdleRun /\ IdleTable
    /\ IdleDates /\ IdleTimeline
    /\ IdleAnalyze
    /\ cfg_files \in ConfigFileDirs
    /\ main_file \in {"valid", "invalid"}
    /\ boot = "start"
    /\ objects = <<>>
    /\ config_cache = {}
    /\ detector_map = <<>>
    /\ last_load = 0
    /\ load_errors = {}
    /\ issued = {}
    /\ analysed_since_load = FALSE
    /\ scorer_built = [path |-> "none"]

\* ReportAnalysisTool.__init__, first step: load_main_config raises on a
\* main configuration that is no valid YAML or fails _validate_main_config,
\* and the tool is not constructed
LoadMainConfig ==
    /\ boot = "start"
    /\ IF main_file = "valid"
       THEN /\ boot' = "main"
            /\ objects' = Append(objects,
                              ConfigObject([stem |-> "main_config"], 0))
            /\ config_cache' = CachePut(config_cache, "main",
                                        Len(objects) + 1)
       ELSE /\ boot' = "aborted"
            /\ UNCHANGED <<objects, config_cache>>
    /\ UNCHANGED <<cfg_files, main_file, detector_map, last_load,
                   load_errors, issued, analysed_since_load, scorer_built>>
    /\ UNCHANGED outsideConfig

\* ReportDetector.__init__
CreateDetector ==
    /\ boot = "main"
    /\ LET loaded == LoadAllReportFiles(cfg_files, objects, config_cache,
                                        last_load + 1)
       IN  /\ objects' = loaded.objects
           /\ config_cache' = loaded.cache
           /\ detector_map' = loaded.reports
           /\ load_errors' = loaded.errors
    /\ last_load' = last_load + 1
    /\ boot' = "ready"
    /\ UNCHANGED <<cfg_files, main_file, issued, analysed_since_load,
                   scorer_built>>
    /\ UNCHANGED outsideConfig

\* a DetectionResult: the report type and the configuration object it
\* refers to (seen is what that object held when the result was returned)
DetectionOf(entry) ==
    [report_type |-> entry.id, report_config |-> entry.obj,
     seen |-> objects[entry.obj].content]

\* the scorer _algorithmic_analysis scores with
ScorerUsed(config) ==
    IF config.id \in SpecificAnalyzers
    THEN [path |-> "analyzer", report_type |-> config.id,
          config |-> config, scorer |-> AnalyzerScorer(config)]
    ELSE [path |-> "generic", report_type |-> config.id,
          config |-> config, scorer |-> GenericScorer(config)]

\* one file through detect and analyze: detect returns a result that refers
\* to a configuration of the mapping, the analysis builds its scorer from it
DetectAndAnalyse ==
    /\ boot = "ready"
    /\ \E k \in DOMAIN detector_map :
         /\ \/ DetectionOf(detector_map[k]) \in issued
            \/ Cardinality(issued) < MaxIssued
         /\ issued' = issued \cup {DetectionOf(detector_map[k])}
         /\ scorer_built' = ScorerUsed(objects[detector_map[k].obj].content)
    /\ analysed_since_load' = TRUE
    /\ UNCHANGED <<cfg_files, main_file, boot, objects, config_cache,
                   detector_map, last_load, load_errors>>
    /\ UNCHANGED outsideConfig

\* somebody edits the configuration directory
EditConfigFiles ==
    /\ boot = "ready"
    /\ last_load <= MaxLoads
    /\ cfg_files' \in EditedDirs \ {cfg_files}
    /\ UNCHANGED <<main_file, boot, objects, config_cache, detector_map,
                   last_load, load_errors, issued, analysed_since_load,
                   scorer_built>>
    /\ UNCHANGED outsideConfig

\* ReportDetector.reload_configs
DetectorReloadConfigs ==
    /\ boot = "ready"
    /\ last_load <= MaxLoads
    /\ LET loaded == LoadAllReportFiles(cfg_files, objects, config_cache,
                                        last_load + 1)
       IN  /\ objects' = loaded.objects
           /\ config_cache' = loaded.cache
           /\ detector_map' = ReplaceMapping(detector_map, loaded.reports)
           /\ load_errors' = loaded.errors
    /\ last_load' = last_load + 1
    /\ analysed_since_load' = FALSE
    /\ UNCHANGED <<cfg_files, main_file, boot, issued, scorer_built>>
    /\ UNCHANGED outsideConfig

\* ConfigLoader.reload_configs: "self.config_cache.clear()"
LoaderReloadConfigs ==
    /\ boot = "ready"
    /\ config_cache # {}
    /\ config_cache' = {}
    /\ UNCHANGED <<cfg_files, main_file, boot, objects, detector_map,
                   last_load, load_errors, issued, analysed_since_load,
                   scorer_built>>
    /\ UNCHANGED outsideConfig

NextConfig ==
    \/ LoadMainConfig
    \/ CreateDetector
    \/ DetectAndAnalyse
    \/ EditConfigFiles
    \/ DetectorReloadConfigs
    \/ LoaderReloadConfigs

SpecConfig == InitConfig /\ [][NextConfig]_vars

\* ------------------------------------------------------------------------
\* Properties of configuration loading
\* ------------------------------------------------------------------------
\* C25: reloading creates new configuration objects: the object a
\* DetectionResult returned earlier refers to still holds what it held when
\* the result was returned, and the detector's mapping is replaced as a
\* whole, so every configuration in it was created by the detector's latest
\* load and none of them is an object an earlier load created.
C25_ReloadCreatesNewObjects ==
    /\ \A r \in issued : objects[r.report_config].content = r.seen
    /\ \A k \in DOMAIN detector_map :
         objects[detector_map[k].obj].load = last_load

\* C25 witness: a result returned before a reload refers to an object that
\* is no longer in the mapping, while the mapping holds a configuration of
\* the same report type with other content
C25_Witness ==
    /\ last_load >= 2
    /\ \E r \in issued :
         /\ objects[r.report_config].load < last_load
         /\ \E k \in DOMAIN detector_map :
              /\ detector_map[k].id = r.report_type
              /\ detector_map[k].obj # r.report_config
              /\ objects[detector_map[k].obj].content # r.seen


\* C26: a malformed main or report-type configuration is fatal at load
\* time: when the latest load met a malformed file, or the main
\* configuration is malformed, the tool is not ready and no file is analysed
\* with the configurations that did load.
C26_MalformedConfigIsFatal ==
    (load_errors # {} \/ main_file = "invalid")
        => /\ boot # "ready"
           /\ ~analysed_since_load

\* C28: the scorer an analysis scores with is the one built from the
\* analysis.scoring section of the detected report type's configuration,
\* on the path of a type-specific analyzer as on the generic path.
C28_ScorerFromConfiguredScoring ==
    scorer_built.path # "none"
        => scorer_built.scorer =
               RiskScorerOf(scorer_built.config.analysis_scoring)

(***************************************************************************)
(* Part 9: ReportAnalyzer.analyze  (src/src/core/report_analyzer.py)       *)
(*                                                                         *)
(* The hybrid analysis of one file: the algorithmic analysis first, the    *)
(* LLM analysis as fallback, the failed result last.  Scores of this part  *)
(* are the integers the LLM path computes (100 is a score of 100).  What   *)
(* the parsers, the analyzers and the LLM service do with the file is the  *)
(* input of the call: the parsed table, whether a check raises, the        *)
(* scorer's verdict, the state of the handler, the LLM response.           *)
(***************************************************************************)

MaxIssues == 4

LlmBaseScore == 100
IssuePenalty == 10
LowRiskFrom == 85
MediumRiskFrom == 70

\* self.parsers of ReportAnalyzer
AnalyzerParsers == {"pdf", "xlsx", "xls", "csv", "html", "htm"}

AnalyzerResult(result_status, risk_level, score, method) ==
    [given |-> TRUE, result_status |-> result_status,
     risk_level |-> risk_level, score |-> score, method |-> method]

NoAnalysis == [given |-> FALSE]

Outcome(kind, res) == [kind |-> kind, result |-> res]

\* the verdicts of RiskScorer.calculate the algorithmic path passes on
ScoreResults ==
    { [status |-> StatusOk, risk_level |-> "niedrig", score |-> 100],
      [status |-> StatusError, risk_level |-> "hoch", score |-> 40] }

\* the llm_handler of the analyzer: absent, or an OllamaHandler
Handler(present, has_client, connection, model_listed) ==
    [present |-> present, client |-> has_client, connection |-> connection,
     model_listed |-> model_listed]

Handlers ==
    { Handler(FALSE, FALSE, FALSE, FALSE), Handler(TRUE, FALSE, FALSE, FALSE),
      Handler(TRUE, TRUE, FALSE, FALSE), Handler(TRUE, TRUE, TRUE, FALSE),
      Handler(TRUE, TRUE, TRUE, TRUE) }

\* what llm_handler.analyze does: raises, answers with an error, or answers
\* with structured data listing issues
LlmAnswer(raises, error, issues) ==
    [raises |-> raises, error |-> error, issues |-> issues]

LlmResponses ==
    { LlmAnswer(TRUE, "", 0), LlmAnswer(FALSE, "timeout", 0) }
        \cup { LlmAnswer(FALSE, "", n) : n \in 0..MaxIssues }

AnalyzeInputs ==
    [ given : {TRUE},
      suffix : {"csv", "txt"},
      df : {"none", "empty", "rows"},
      checks_raise : BOOLEAN,
      score_result : ScoreResults,
      handler : Handlers,
      text : {"", "text"},
      llm_enabled : BOOLEAN,
      prompt : {"", "prompt"},
      response : LlmResponses ]

AlgorithmicAnalysis(inp) ==
    IF inp.suffix \notin AnalyzerParsers THEN Outcome("none", NoAnalysis)
    ELSE IF inp.df \in {"none", "empty"} THEN Outcome("none", NoAnalysis)
    ELSE IF inp.checks_raise THEN Outcome("raised", NoAnalysis)
    ELSE Outcome("result",
                 AnalyzerResult(inp.score_result.status,
                                inp.score_result.risk_level,
                                inp.score_result.score, "algorithmic"))

TestConnection(h) == h.connection /\ h.model_listed

IsAvailable(h) == h.client /\ TestConnection(h)

LlmScore(issues) ==
    LET s == LlmBaseScore - issues * IssuePenalty
    IN  IF s > 0 THEN s ELSE 0

LlmResult(issues) ==
    LET score == LlmScore(issues)
    IN  IF score >= LowRiskFrom
        THEN AnalyzerResult(StatusOk, "niedrig", score, "llm")
        ELSE IF score >= MediumRiskFrom
        THEN AnalyzerResult(StatusLimited, "mittel", score, "llm")
        ELSE AnalyzerResult(StatusError, "hoch", score, "llm")

LlmAnalysis(inp) ==
    IF inp.suffix \notin AnalyzerParsers THEN Outcome("none", NoAnalysis)
    ELSE IF inp.text = "" THEN Outcome("none", NoAnalysis)
    ELSE IF ~inp.llm_enabled THEN Outcome("none", NoAnalysis)
    ELSE IF inp.prompt = "" THEN Outcome("none", NoAnalysis)
    ELSE IF inp.response.raises THEN Outcome("raised", NoAnalysis)
    ELSE IF inp.response.error # "" THEN Outcome("none", NoAnalysis)
    ELSE Outcome("result", LlmResult(inp.response.issues))

FailedAnalysis ==
    AnalyzerResult(StatusNotAnalysed, "hoch", 0, "failed")

\* the first try block of analyze: return the algorithmic result, or go on
\* to the fallback (an exception is caught by "except Exception")
AfterAlgorithmic(o) ==
    IF o.kind = "result" /\ o.result.method = "algorithmic"
    THEN "returned" ELSE "fallback"

\* the condition of the fallback, taken without asking the handler
AfterFallbackCheckUnconditional(h) == "llm"

\* "if self.llm_handler and self.llm_handler.is_available()"
AfterFallbackCheck(h) ==
    IF h.present /\ IsAvailable(h) THEN "llm" ELSE "failed"

\* the second try block: return the LLM result, or go on to the failed one
AfterLlm(o) == IF o.kind = "result" THEN "returned" ELSE "failed"

InitAnalyze ==
    /\ an_input = NoAnalysis
    /\ an_pc = "idle"
    /\ algo_outcome = "pending"
    /\ llm_outcome = "not_attempted"
    /\ an_result = NoAnalysis
    /\ IdleScorer
    /\ IdleDetector
    /\ IdleClassify
    /\ IdleRun
    /\ IdleTable
    /\ IdleDates
    /\ IdleTimeline
    /\ IdleConfig

\* analyze is called on a file; the analyzer keeps nothing from one call to
\* the next, so one call is followed from its start to its return
Analyze ==
    /\ an_pc = "idle"
    /\ \E inp \in AnalyzeInputs : an_input' = inp
    /\ an_pc' = "algorithmic"
    /\ algo_outcome' = "pending"
    /\ llm_outcome' = "not_attempted"
    /\ an_result' = NoAnalysis
    /\ UNCHANGED outsideAnalyze

TryAlgorithmic ==
    /\ an_pc = "algorithmic"
    /\ LET o == AlgorithmicAnalysis(an_input)
       IN  /\ algo_outcome' = o.kind
           /\ an_pc' = AfterAlgorithmic(o)
           /\ an_result' = IF AfterAlgorithmic(o) = "returned"
                           THEN o.result ELSE an_result
    /\ UNCHANGED <<an_input, llm_outcome>>
    /\ UNCHANGED outsideAnalyze

CheckFallback ==
    /\ an_pc = "fallback"
    /\ an_pc' = AfterFallbackCheck(an_input.handler)
    /\ llm_outcome' = IF AfterFallbackCheck(an_input.handler) = "llm"
                      THEN "attempted" ELSE llm_outcome
    /\ UNCHANGED <<an_input, algo_outcome, an_result>>
    /\ UNCHANGED outsideAnalyze

TryLlm ==
    /\ an_pc = "llm"
    /\ LET o == LlmAnalysis(an_input)
       IN  /\ llm_outcome' = o.kind
           /\ an_pc' = AfterLlm(o)
           /\ an_result' = IF AfterLlm(o) = "returned"
                           THEN o.result ELSE an_result
    /\ UNCHANGED <<an_input, algo_outcome>>
    /\ UNCHANGED outsideAnalyze

ReturnFailedResult ==
    /\ an_pc = "failed"
    /\ an_result' = FailedAnalysis
    /\ an_pc' = "returned"
    /\ UNCHANGED <<an_input, algo_outcome, llm_outcome>>
    /\ UNCHANGED outsideAnalyze

\* the steps of a call under way
AnalyzeStep ==
    \/ TryAlgorithmic
    \/ CheckFallback
    \/ TryLlm
    \/ ReturnFailedResult

NextAnalyze ==
    \/ Analyze
    \/ TryAlgorithmic
    \/ CheckFallback
    \/ TryLlm
    \/ ReturnFailedResult

\* a call of analyze runs on to its return: the code is sequential and the
\* LLM request is bounded by the handler's timeout
SpecAnalyze == InitAnalyze /\ [][NextAnalyze]_vars /\ WF_vars(AnalyzeStep)

----------------------------------------------------------------------------
(* Properties of Part 9 *)

AnalysisResults ==
    { r \in [given : {TRUE},
             result_status : {StatusOk, StatusLimited, StatusError,
                              StatusNotAnalysed},
             risk_level : {"niedrig", "mittel", "hoch"},
             score : 0..LlmBaseScore,
             method : {"algorithmic", "llm", "failed"}] : TRUE }

AnalyzeReturnsProperly ==
    /\ an_pc # "raised"
    /\ an_pc = "llm" =>
        /\ algo_outcome \in {"none", "raised"}
        /\ an_input.handler.present
        /\ an_input.handler.client
        /\ an_input.handler.connection
        /\ an_input.handler.model_listed
    /\ llm_outcome # "not_attempted" =>
        /\ algo_outcome \in {"none", "raised"}
        /\ an_input.handler.present
        /\ an_input.handler.client
        /\ an_input.handler.connection
        /\ an_input.handler.model_listed
    /\ an_pc = "returned" =>
        /\ an_result \in AnalysisResults
        /\ algo_outcome = "result" =>
            /\ an_result = AlgorithmicAnalysis(an_input).result
            /\ an_result.method = "algorithmic"
            /\ llm_outcome = "not_attempted"
        /\ (algo_outcome # "result" /\ llm_outcome # "result") =>
            /\ an_result.method = "failed"
            /\ an_result.score = 0
            /\ an_result.risk_level = "hoch"
            /\ an_result.result_status = "nicht_erfolgreich_analysiert"

====
